---------------------------- MODULE Spec2Model ----------------------------
(***************************************************************************)
(* Hush / AORP onion transport (taiorproject/Hush).                        *)
(*                                                                         *)
(* The module models one AORPTransport instance (src/lib/aorp-transport.ts,*)
(* the WebCrypto variant, lines 1-866) together with its environment: the  *)
(* signaling socket, the WebRTC substrate and the remote peers.  The       *)
(* transport never creates an offer itself (discoverNodes and handleOffer  *)
(* both call createPeerConnection(peerId, false)), so every data channel   *)
(* it ever holds comes from a remote initiator through pc.ondatachannel:   *)
(* channels, channel events and inbound frames are environment inputs.     *)
(*                                                                         *)
(* Byte strings are sequences of cells.  A cell 0..255 is a plain byte.    *)
(* AES-GCM output is modelled cell by cell: CT(k, c) is the ciphertext of  *)
(* cell c under AEAD key k, and the 16 tag cells carry a digest of the     *)
(* plaintext, so that lengths are the real lengths, a layer can only be    *)
(* opened with the key it was sealed with, and a changed cell fails        *)
(* authentication.                                                         *)
(*                                                                         *)
(* Spec is the transport from construction on.  SpecTrip starts from a     *)
(* connected originator and adds the peers of its circuit, which run the   *)
(* same handlers on the frames written to them.  SpecLibtaior is the send  *)
(* path of the libtaior revision of the class (src/unnamed/part_003) with  *)
(* the TaiorClient of src/lib/taior.ts.  SpecInbound is the connected node *)
(* handling frames its peers write to it, broken and cover frames among    *)
(* them.  SpecTaior is the TaiorClient of createTaiorWasm on its own.      *)
(* SpecCodec is buildAORPPacket followed by removePadding over payloads    *)
(* around the padding boundaries.  SpecChat is sendMessage of the two chat *)
(* sessions.  SpecHandshake is the directory of the libtaior revision:     *)
(* discovery, the wait for handshakes and the handshake frames.            *)
(* SpecDiscovery is the transport over several 'peer-list' messages,       *)
(* SpecRoom a room of transports with its signaling server, SpecProvider   *)
(* the TaiorProvider, SpecPage the chat page's session handling and        *)
(* SpecDht the SimpleDHT routing table.                                    *)
(***************************************************************************)
EXTENDS Integers, Sequences, FiniteSets, TLC

(***************************************************************************)
(* Bounds of the model.                                                    *)
(***************************************************************************)
MaxSends == 1          \* user send() calls per run
MaxCover == 1          \* cover-traffic ticks that decide to send
MaxInbound == 1        \* inbound non-handshake frames per run
MaxTicks == 1          \* clock advances per run
MaxFaults == 1         \* channel closes / connection losses per run
MaxPeerLists == 1      \* 'peer-list' signaling messages per run
MaxBadKeys == 1        \* handshake frames that do not carry the peer's key
MaxExports == 1        \* sendHandshake calls awaiting exportKey at one time
MaxEvents == 1         \* cover, inbound, clock, fault and bad-key steps together

(***************************************************************************)
(* Nodes.  Node 1 is the transport under study in the one-node             *)
(* specifications; 2..4 are its peers.                                     *)
(***************************************************************************)
NumNodes == 4
Node == 1..NumNodes
Self == 1
Peer == Node \ {Self}

\* config.peerId as UTF-8 bytes: 16 ASCII bytes, 'a' + n - 1 repeated.
IdLen == 16
peerIdBytes(n) == [i \in 1..IdLen |-> 96 + n]

(***************************************************************************)
(* Byte helpers.                                                           *)
(***************************************************************************)
Min(a, b) == IF a < b THEN a ELSE b
Max(a, b) == IF a > b THEN a ELSE b

\* Uint8Array.prototype.slice(from, to): 0-based, half open, clamped.
slice(s, from, to) ==
  LET f == Min(Max(from, 0), Len(s))
      t == Min(Max(to, f), Len(s))
  IN  SubSeq(s, f + 1, t)

sliceFrom(s, from) == slice(s, from, Len(s))

\* new Uint8Array(n): n zero bytes.
zeros(n) == [i \in 1..n |-> 0]

\* crypto.getRandomValues: the byte standing for a random byte.  No code
\* path modelled here branches on a random byte.
RandomByte == 119
randomBytes(n) == [i \in 1..n |-> RandomByte]

\* target.set(src) into a zeroed array of length n, src already cut to fit.
padTo(src, n) == src \o zeros(n - Len(src))

\* data[i] read as a number (0-based index).  A ciphertext cell read as a
\* plain byte is some byte; undefined (index past the end) reads as -1.
byteAt(s, i) == IF i < Len(s) THEN s[i + 1] % 256 ELSE -1
isPlain(s) == \A i \in 1..Len(s) : s[i] < 256

(***************************************************************************)
(* Crypto (WebCrypto ECDH P-256 + AES-GCM-256).                            *)
(***************************************************************************)
NumEph == 2                         \* ephemeral key pairs told apart
NumKeys == NumEph * NumNodes        \* AEAD keys = (ephemeral, recipient)
PointLen == 65                      \* raw P-256 point: 0x04 || X || Y
IvLen == 12
TagLen == 16
TagBase == 256                      \* cell payloads 256..999 are tag digests
CtBase == 1000
DigestMod == 743

\* exportKey('raw', publicKey) of node n's identity key.
staticPub(n) == <<4>> \o [i \in 1..(PointLen - 1) |-> n]
\* exportKey('raw', ephemeralKeyPair.publicKey) of ephemeral pair e.
EphBase == 100
ephPub(e) == <<4>> \o [i \in 1..(PointLen - 1) |-> EphBase + e]
\* the ephemeral pair generateKey returns to an honest sender
FreshEph == 1

\* importKey('raw', bytes, P-256): the point the bytes name, 0 when the
\* import throws (wrong length, wrong prefix, not a point).
pointOf(bytes) ==
  IF Len(bytes) = PointLen /\ bytes[1] = 4
     /\ \A i \in 2..PointLen : bytes[i] = bytes[2]
  THEN bytes[2]
  ELSE 0

isStaticPoint(pt) == pt \in Node
isEphPoint(pt) == (pt - EphBase) \in 1..NumEph

\* deriveBits: the AES key both sides arrive at for ephemeral e and
\* recipient n.
aeadKey(e, n) == (e - 1) * NumNodes + n

CT(k, c) == CtBase + c * NumKeys + (k - 1)
ctKey(x) == ((x - CtBase) % NumKeys) + 1
ctInner(x) == (x - CtBase) \div NumKeys

\* The digest the tag carries: a position-weighted sum of the cells,
\* computed by halving so that long frames need little recursion depth.
RECURSIVE digestRange(_, _, _)
digestRange(s, lo, hi) ==
  IF lo > hi THEN 0
  ELSE IF lo = hi THEN ((s[lo] % DigestMod) * (1 + (lo % 7))) % DigestMod
  ELSE LET mid == (lo + hi) \div 2
       IN  (digestRange(s, lo, mid) + digestRange(s, mid + 1, hi)) % DigestMod
digest(s) == digestRange(s, 1, Len(s))

\* crypto.subtle.encrypt({name: 'AES-GCM', iv}, key, data)
aesGcmEncrypt(k, data) ==
  LET tag == CT(k, TagBase + digest(data))
  IN  [i \in 1..Len(data) |-> CT(k, data[i])] \o [i \in 1..TagLen |-> tag]

\* crypto.subtle.decrypt: the plaintext, or ok = FALSE when authentication
\* fails.
aesGcmDecrypt(k, enc) ==
  LET n == Len(enc) - TagLen
      plain == [i \in 1..n |-> ctInner(enc[i])]
      tag == CT(k, TagBase + digest(plain))
  IN  IF n < 0 THEN [ok |-> FALSE, bytes |-> <<>>]
      ELSE IF \E i \in 1..Len(enc) : enc[i] < CtBase \/ ctKey(enc[i]) # k
        THEN [ok |-> FALSE, bytes |-> <<>>]
      ELSE IF \E i \in (n + 1)..Len(enc) : enc[i] # tag
        THEN [ok |-> FALSE, bytes |-> <<>>]
      ELSE [ok |-> TRUE, bytes |-> plain]

(***************************************************************************)
(* Codec and onion construction (aorp-transport.ts, WebCrypto variant).    *)
(***************************************************************************)
PadBoundary == 512
HeaderSize == 20                    \* magic + flags + dest + length
DestLen == 16
NextHopLen == 32
MagicAorp == 170                    \* 0xAA
MagicHandshake == 187               \* 0xBB
MagicCover == 255                   \* 0xFF

\* Rounding down to the boundary instead of up.
ceilPad_roundDown(n) == (n \div PadBoundary) * PadBoundary

\* Math.ceil(n / 512) * 512
ceilPad(n) == ((n + PadBoundary - 1) \div PadBoundary) * PadBoundary

\* buildAORPPacket(payload, circuit); hopIds are circuit.nodes[i].id as bytes.
buildAORPPacket(payload, hopIds) ==
  LET flags == IF Len(hopIds) > 1 THEN 1 ELSE 0
      finalDestId == hopIds[Len(hopIds)]
      destination == padTo(slice(finalDestId, 0, DestLen), DestLen)
      payloadLength == Len(payload)
      lengthBytes == << (payloadLength \div 256) % 256, payloadLength % 256 >>
      targetSize == ceilPad(HeaderSize + payloadLength)
      head == <<MagicAorp, flags>> \o destination \o lengthBytes \o payload
  IN  head \o randomBytes(targetSize - Len(head))

\* encryptLayer(data, node): [EphKeyLen 1b][EphKey][IV 12b][EncryptedContent],
\* or ok = FALSE when importKey rejects node.publicKey and the method throws.
encryptLayer(data, publicKey) ==
  LET pt == pointOf(publicKey)
  IN  IF ~isStaticPoint(pt) THEN [ok |-> FALSE, bytes |-> <<>>]
      ELSE [ok |-> TRUE,
            bytes |-> <<PointLen>> \o ephPub(FreshEph) \o randomBytes(IvLen)
                        \o aesGcmEncrypt(aeadKey(FreshEph, pt), data)]

\* encryptOnion(data, circuit): hops is the sequence of [id, publicKey] of
\* circuit.nodes.  Layers are added from the last hop to the first; before
\* sealing layer i > 0 the id of hop i-1 is prepended as a 32-byte field.
RECURSIVE encryptOnionFrom(_, _, _)
encryptOnionFrom(encrypted, hops, i) ==
  IF i < 1 THEN [ok |-> TRUE, bytes |-> encrypted]
  ELSE LET withRouting ==
             IF i > 1
             THEN padTo(slice(hops[i - 1].id, 0, NextHopLen), NextHopLen)
                    \o encrypted
             ELSE encrypted
           layer == encryptLayer(withRouting, hops[i].publicKey)
       IN  IF ~layer.ok THEN layer
           ELSE encryptOnionFrom(layer.bytes, hops, i - 1)

encryptOnion(data, hops) == encryptOnionFrom(data, hops, Len(hops))

\* decryptLayer with a cipher that does not authenticate: whatever the
\* content cells hold is returned as the plaintext.
decryptLayer_unauthenticated(data, me) ==
  LET keyLen == byteAt(data, 0)
      encryptedData == sliceFrom(data, 1 + keyLen + IvLen)
      n == Len(encryptedData) - TagLen
  IN  IF Len(data) < 1 + PointLen + IvLen \/ n < 0
        THEN [ok |-> FALSE, bytes |-> <<>>]
      ELSE [ok |-> TRUE,
            bytes |-> [i \in 1..n |->
                         IF encryptedData[i] >= CtBase
                         THEN ctInner(encryptedData[i]) ELSE encryptedData[i]]]

\* decryptLayer(data) at node me (its identity key pair is held).
decryptLayer(data, me) ==
  LET keyLen == byteAt(data, 0)
      ephKeyBytes == slice(data, 1, 1 + keyLen)
      encryptedData == sliceFrom(data, 1 + keyLen + IvLen)
      pt == pointOf(ephKeyBytes)
  IN  IF Len(data) < 1 + PointLen + IvLen
        THEN [ok |-> FALSE, bytes |-> <<>>]
      ELSE IF keyLen > 100 \/ 1 + keyLen > Len(data)
        THEN [ok |-> FALSE, bytes |-> <<>>]
      ELSE IF ~isPlain(ephKeyBytes) \/ ~isEphPoint(pt)
        THEN [ok |-> FALSE, bytes |-> <<>>]
      ELSE aesGcmDecrypt(aeadKey(pt - EphBase, me), encryptedData)

\* isForMe(data) at node me.
\* isForMe(data) on a node whose config.peerId encodes to the bytes id
isForMeWithId(data, id) ==
  LET ourIdHashSlice == slice(id, 0, DestLen)
  IN  /\ Len(data) >= 18
      /\ byteAt(data, 0) = MagicAorp
      /\ Len(ourIdHashSlice) > 0
      /\ \A i \in 0..(DestLen - 1) :
           data[2 + i + 1] = ourIdHashSlice[(i % Len(ourIdHashSlice)) + 1]

isForMe(data, me) == isForMeWithId(data, peerIdBytes(me))

isCoverTraffic(data) == byteAt(data, 0) = MagicCover

\* removePadding(data)
removePadding(data) ==
  LET payloadLength == byteAt(data, 18) * 256 + byteAt(data, 19)
  IN  IF Len(data) < HeaderSize THEN data
      ELSE IF payloadLength = 0 \/ payloadLength > Len(data) - HeaderSize
        THEN sliceFrom(data, HeaderSize)
      ELSE slice(data, HeaderSize, HeaderSize + payloadLength)

\* String.prototype.trim on the decoded bytes: ASCII white space.
isSpace(b) == b \in {9, 10, 11, 12, 13, 32}
RECURSIVE trimLeft(_)
trimLeft(s) ==
  IF s # <<>> /\ isSpace(s[1]) THEN trimLeft(Tail(s)) ELSE s
RECURSIVE trimRight(_)
trimRight(s) ==
  IF s # <<>> /\ isSpace(s[Len(s)])
  THEN trimRight(SubSeq(s, 1, Len(s) - 1)) ELSE s

\* new TextDecoder().decode(bytes).replace(/\0/g, '').trim(), as the bytes
\* of the resulting string (peer ids are ASCII; any other byte decodes to a
\* character no peer id holds and is kept as it is).
decodeId(bytes) ==
  trimRight(trimLeft(SelectSeq(bytes, LAMBDA b : b # 0)))

\* extractNextHop(data): the next hop id as bytes, <<>> for null.
extractNextHop(data) ==
  LET flags == byteAt(data, 1)
      hasNextHop == (flags % 2) = 1
  IN  IF Len(data) < 50 THEN <<>>
      ELSE IF ~hasNextHop THEN <<>>
      ELSE decodeId(slice(data, 18, 50))

\* The peer a next-hop string names in a Map keyed by peer id, 0 for none.
nodeOfId(idBytes) ==
  IF \E n \in Node : peerIdBytes(n) = idBytes
  THEN CHOOSE n \in Node : peerIdBytes(n) = idBytes
  ELSE 0

(***************************************************************************)
(* State of one AORPTransport and of what its environment has done.        *)
(***************************************************************************)
VARIABLES
  ws,            \* "null" | "open": this.ws after connect()
  keyPair,       \* this.keyPair is set
  taiorWasm,     \* this.taiorWasm: "null" | "wasm" | "lite"
  connected,     \* this.connected
  now,           \* Date.now(), ms since the run began
  knownNodes,    \* this.knownNodes: peer -> node object (present: in the Map)
  peers,         \* keys of this.peers (RTCPeerConnection objects)
  dataChannels,  \* this.dataChannels: peer -> "none" | "open"
  hsExport,      \* peers whose onopen handler awaits exportKey
  circuits,      \* this.circuits in insertion order
  timers,        \* live setInterval timers: [cover, refresh]
  tasks,         \* send() calls awaiting encryptOnion and sendToNextHop
                 \* calls asleep in their jitter timeout
  out,           \* peer -> frames written with channel.send on its channel
                 \* that the peer has not taken yet
  wire,          \* node -> frames the peers wrote on their channels to it
  hsRecv,        \* peers whose 0xBB frame arrived on the current channel
  sends,         \* send() calls: payload and how the promise settled
  delivered,     \* messageCallback invocations, at this node or at a peer
  used,          \* how much of each bound the run has consumed
  taior,         \* closure of the TaiorClient of createTaiorWasm: status,
                 \* taiorInstance, the ready promise, and its send() calls
  pendingHandshakes, \* this.pendingHandshakes of the libtaior revision
  waiting,       \* startTime of the waitForHandshakes call in progress, -1
                 \* when none is
  codec,         \* one buildAORPPacket / removePadding computation: its
                 \* inputs, the packet and the parsed payload
  yMessages,     \* the shared 'messages' array of the chat session
  room,          \* a room of transports and its signaling server
  provider,      \* a TaiorProvider, its document and its transport
  page,          \* the chat page: 'session' and the sessions created
  dht            \* a SimpleDHT: its routing table

vars == << ws, keyPair, taiorWasm, connected, now, knownNodes, peers,
           dataChannels, hsExport, circuits, timers, tasks, out, wire,
           hsRecv, sends, delivered, used, taior, pendingHandshakes,
           waiting, codec, yMessages, room, provider, page, dht >>

minHops == 3
maxHops == 5
circuitTTL == 600000
StaleMs == 60000

\* publicKey: new Uint8Array(32) set by discoverNodes
placeholderKey == zeros(32)

\* gen tells the node objects created for one peer id apart: a circuit
\* keeps the object it was built with after the Map entry is gone.
NoNode == [present |-> FALSE, gen |-> 0, publicKey |-> <<>>, lastSeen |-> 0]

Payloads == { <<104, 105>> }
CoverSizes == { 512, 2047 }          \* 512 + floor(random * 1536)
Advance == { StaleMs, circuitTTL + 1 }
PeerLists == { {2, 3}, {2, 3, 4} }   \* peers a 'peer-list' message names

\* What a 0xBB frame from peer p may carry: its key, nothing, zero bytes.
HandshakeKeys(p) == { staticPub(p), <<>>, zeros(PointLen) }

has(p) == knownNodes[p].present
knownIds(kn) == { p \in Peer : kn[p].present }

\* isZeroKey in buildCircuit: k.length === 32 && k.every(b => b === 0)
isZeroKey(k) == Len(k) = 32 /\ \A i \in 1..Len(k) : k[i] = 0

\* availableNodes in buildCircuit, over the directory kn
availableNodes(kn) ==
  { p \in knownIds(kn) : /\ now - kn[p].lastSeen < StaleMs
                         /\ ~isZeroKey(kn[p].publicKey) }

hopOf(kn, p) == [id |-> p, gen |-> kn[p].gen, publicKey |-> kn[p].publicKey]

range(f) == { f[i] : i \in DOMAIN f }

\* The selection loop of buildCircuit from pass Len(selectedNodes) on: the
\* candidates are the available nodes not yet used; with the hook, the node
\* whose id the hook returned, or candidates[0] when it returned anything
\* else; without the hook a random candidate.  hookIds[i] is what the hook
\* (or the random draw) names in pass i; candidates[0] is taken in peer
\* order.
selectNodes_withReplacement(avail, selectedNodes, hookIds, targetHops) ==
  IF Len(selectedNodes) >= targetHops \/ avail = {} THEN selectedNodes
  ELSE [i \in 1..targetHops |->
          IF hookIds[i] \in avail THEN hookIds[i]
          ELSE CHOOSE c \in avail : \A d \in avail : c <= d]
RECURSIVE selectNodes(_, _, _, _)
selectNodes(avail, selectedNodes, hookIds, targetHops) ==
  LET usedIds == range(selectedNodes)
      candidates == avail \ usedIds
      i == Len(selectedNodes) + 1
      selected == IF hookIds[i] \in candidates THEN hookIds[i]
                  ELSE CHOOSE c \in candidates : \A d \in candidates : c <= d
  IN  IF i > targetHops \/ candidates = {} THEN selectedNodes
      ELSE selectNodes(avail, Append(selectedNodes, selected), hookIds,
                       targetHops)

\* buildCircuit(targetHops) over the directory kn: the circuit as a
\* one-element sequence, or <<>> for null.
circuitOf(kn, selectedNodes) ==
  [nodes |-> [i \in 1..Len(selectedNodes) |-> hopOf(kn, selectedNodes[i])],
   createdAt |-> now, ttl |-> circuitTTL]
buildCircuit_unguarded(kn, targetHops, hookIds) ==
  << circuitOf(kn, selectNodes(availableNodes(kn), <<>>, hookIds, targetHops)) >>
buildCircuit(kn, targetHops, hookIds) ==
  LET selectedNodes == selectNodes(availableNodes(kn), <<>>, hookIds, targetHops)
  IN  IF Cardinality(availableNodes(kn)) < targetHops THEN <<>>
      ELSE IF Len(selectedNodes) < targetHops THEN <<>>
      ELSE << circuitOf(kn, selectedNodes) >>

\* What decideNextHop returns in the passes of one buildCircuit call: the
\* peers in some order, one id in every pass (used already after the
\* first), or an id that is no candidate (this node's own).  Without the
\* hook (taiorWasm null or without decideNextHop) the random draw is one of
\* the candidates, which the same choices cover.
HookChoices == { <<2, 3, 4>>, <<4, 2, 3>>, <<3, 3, 3>>, <<1, 1, 1>> }

\* refreshCircuits() on the circuits cs over the directory kn: drop expired
\* circuits, build one when none is left.
refreshCircuits(cs, kn, hookIds) ==
  LET kept == SelectSeq(cs, LAMBDA c : ~(now - c.createdAt > c.ttl))
  IN  IF Len(kept) = 0 THEN buildCircuit(kn, minHops, hookIds) ELSE kept

(***************************************************************************)
(* Frames.                                                                 *)
(***************************************************************************)
\* sendHandshake: 0xBB followed by the raw public key
handshakeFrame(key) == <<MagicHandshake>> \o key

hopsOf(circuit) ==
  [i \in 1..Len(circuit.nodes) |->
     [id |-> peerIdBytes(circuit.nodes[i].id),
      publicKey |-> circuit.nodes[i].publicKey]]
hopIdsOf(circuit) ==
  [i \in 1..Len(circuit.nodes) |-> peerIdBytes(circuit.nodes[i].id)]

\* sendCoverTraffic: coverData of the drawn size
coverData(size) == <<MagicCover>> \o randomBytes(size - 1)

\* Frames a remote peer may put on the channel besides its handshake:
\* (1) one layer sealed for this node around an AORP frame addressed to it,
\* (2) one layer sealed for this node around a cleartext in the layout
\* extractNextHop reads, naming peer q as next hop, (3) a bare cover frame,
\* and (4) the onion another AORPTransport builds with encryptOnion for a
\* circuit that has this node as first hop.
routedCleartext(q) ==
  <<MagicAorp, 1>> \o padTo(slice(peerIdBytes(q), 0, DestLen), DestLen)
    \o padTo(slice(peerIdBytes(q), 0, NextHopLen), NextHopLen) \o <<1, 2, 3>>
sealedFor(n, cleartext) == encryptLayer(cleartext, staticPub(n)).bytes
honestHops(path) ==
  [i \in 1..Len(path) |-> [id |-> peerIdBytes(path[i]),
                           publicKey |-> staticPub(path[i])]]
honestOnion(payload, path) ==
  encryptOnion(buildAORPPacket(payload, [i \in 1..Len(path) |->
                                            peerIdBytes(path[i])]),
               honestHops(path)).bytes
InboundFrames ==
  { sealedFor(Self, buildAORPPacket(pl, <<peerIdBytes(Self)>>)) : pl \in Payloads }
    \cup { sealedFor(Self, routedCleartext(q)) : q \in {2, 3} }
    \cup { coverData(512) }
    \cup { honestOnion(pl, <<Self, 2, 3>>) : pl \in Payloads }

(***************************************************************************)
(* What handleOnionPacket does with a frame once decryptLayer has          *)
(* settled: "drop" (decryptLayer threw, or no branch applied), "deliver"   *)
(* (messageCallback(payload, 'anonymous')), "cover" (for this node but     *)
(* cover), or "forward" with the peer id string and the bytes handed to    *)
(* sendToNextHop.                                                          *)
(***************************************************************************)
\* handleOnionPacket handing every peeled content to the callback.
onionOutcome_deliverAll(data, me) ==
  LET dec == decryptLayer(data, me)
  IN  IF ~dec.ok THEN [kind |-> "drop", id |-> <<>>, bytes |-> <<>>]
      ELSE [kind |-> "deliver", id |-> <<>>, bytes |-> removePadding(dec.bytes)]

\* handleOnionPacket of the libtaior revision: the frame is not peeled;
\* "deliver" is messageCallback(payload, fromPeerId).
onionOutcomeLibtaior(data, me) ==
  LET nextHop == extractNextHop(data)
  IN  IF isCoverTraffic(data)
        THEN [kind |-> "cover", id |-> <<>>, bytes |-> <<>>]
      ELSE IF isForMe(data, me)
        THEN [kind |-> "deliver", id |-> <<>>, bytes |-> removePadding(data)]
      ELSE IF nextHop # <<>>
        THEN [kind |-> "forward", id |-> nextHop, bytes |-> data]
      ELSE [kind |-> "drop", id |-> <<>>, bytes |-> <<>>]

onionOutcome(data, me) ==
  LET dec == decryptLayer(data, me)
      decrypted == dec.bytes
      nextHop == extractNextHop(decrypted)
  IN  IF ~dec.ok THEN [kind |-> "drop", id |-> <<>>, bytes |-> <<>>]
      ELSE IF isForMe(decrypted, me)
        THEN IF ~isCoverTraffic(decrypted)
             THEN [kind |-> "deliver", id |-> <<>>,
                   bytes |-> removePadding(decrypted)]
             ELSE [kind |-> "cover", id |-> <<>>, bytes |-> <<>>]
      ELSE IF nextHop # <<>>
        THEN [kind |-> "forward", id |-> nextHop, bytes |-> decrypted]
      ELSE [kind |-> "drop", id |-> <<>>, bytes |-> <<>>]

(***************************************************************************)
(* Initial state: a constructed transport, connect() not yet called.       *)
(***************************************************************************)
\* No room under study; a provider, a page and a routing table as
\* constructed.
NoRoom == [joined |-> {}]
\* new TaiorProvider(doc, roomKey, transport): the update handler is
\* registered on the document, nothing is applied or sent yet.
NoProvider == [updateHandler |-> TRUE, doc |-> {}, sent |-> <<>>,
               heard |-> {}, connected |-> FALSE]
\* The chat page before onMount: 'session' is null (0) and no call of
\* createSession has been made.  Call 1 is the one of onMount, the calls
\* after it are those of join; a session goes by the number of its call.
MaxJoins == 3
Calls == 1..(MaxJoins + 1)
NoPage == [session |-> 0, status |-> [c \in Calls |-> "idle"]]
\* new SimpleDHT(config): an empty routing table (kept in insertion order,
\* as a Map is), no refresh timer; evicted tells whether addNode has ever
\* evicted a node.
NoDht == [routingTable |-> <<>>, refreshTimer |-> FALSE, evicted |-> FALSE]

\* No codec computation under way.
NoCodec == [stage |-> "none", payload |-> <<>>, hopIds |-> <<>>,
            packet |-> <<>>, parsed |-> <<>>, receiver |-> <<>>,
            forMe |-> FALSE]

\* createTaiorWasm(wasm) as it returns: status 'connecting', no instance,
\* ready pending with its 100 ms timeout armed, no send() call yet.
createTaiorWasm ==
  [status |-> "connecting", taiorInstance |-> FALSE, ready |-> "pending",
   calls |-> <<>>]

events == used.cover + used.inbound + used.ticks + used.faults
            + used.badKeys

NoUse == [sends |-> 0, cover |-> 0, inbound |-> 0, ticks |-> 0,
          faults |-> 0, lists |-> 0, badKeys |-> 0]

\* The fields of a constructed AORPTransport, connect() not yet called.
Constructed ==
  /\ ws = "null"
  /\ keyPair = FALSE
  /\ taiorWasm = "null"
  /\ connected = FALSE
  /\ now = 0
  /\ knownNodes = [p \in Peer |-> NoNode]
  /\ peers = {}
  /\ dataChannels = [p \in Peer |-> "none"]
  /\ hsExport = {}
  /\ circuits = <<>>
  /\ timers = [cover |-> 0, refresh |-> 0]
  /\ tasks = {}
  /\ out = [p \in Peer |-> <<>>]
  /\ wire = [n \in Node |-> <<>>]
  /\ hsRecv = {}
  /\ sends = <<>>
  /\ delivered = <<>>
  /\ used = NoUse

Init ==
  /\ Constructed
  /\ taior = createTaiorWasm
  /\ pendingHandshakes = {}
  /\ waiting = -1
  /\ codec = NoCodec
  /\ yMessages = <<>>
  /\ room = NoRoom
  /\ provider = NoProvider
  /\ page = NoPage
  /\ dht = NoDht

\* connect(roomKey) up to the open WebSocket: initializeTaiorWasm (the
\* module loads; buildCircuit selects alike when it does not, see
\* HookChoices), generateKeyPair, new WebSocket.
connect ==
  /\ ws = "null" /\ ~keyPair
  /\ ws' = "open"
  /\ keyPair' = TRUE
  /\ taiorWasm' = "wasm"
  /\ UNCHANGED << taior, pendingHandshakes, waiting, codec, yMessages,
                  room, provider, page, dht >>
  /\ UNCHANGED << connected, now, knownNodes, peers, dataChannels, hsExport,
                  circuits, timers, tasks, out, wire, hsRecv, sends,
                  delivered, used >>

\* discoverNodes without its has() test
discovered_reset(S) ==
  [p \in Peer |->
     IF p \in S
     THEN [present |-> TRUE, gen |-> knownNodes[p].gen + 1,
           publicKey |-> placeholderKey, lastSeen |-> now]
     ELSE knownNodes[p]]

\* discoverNodes(peerIds): the directory after the loop.
discovered(S) ==
  [p \in Peer |->
     IF p \in S /\ ~has(p)
     THEN [present |-> TRUE, gen |-> knownNodes[p].gen + 1,
           publicKey |-> placeholderKey, lastSeen |-> now]
     ELSE knownNodes[p]]

\* ws.onmessage for a 'peer-list' message naming the peers S:
\* discoverNodes, buildInitialCircuits, startCoverTraffic, connected = true.
peerList(S, hookIds) ==
  /\ ws = "open"
  /\ used.lists < MaxPeerLists
  /\ knownNodes' = discovered(S)
  /\ peers' = peers \cup { p \in S : ~has(p) }
  /\ LET enough == Cardinality(knownIds(discovered(S))) >= minHops
     IN  /\ circuits' = IF enough
                        THEN circuits
                               \o buildCircuit(discovered(S), minHops, hookIds)
                        ELSE circuits
         /\ timers' = [cover |-> timers.cover + 1,
                       refresh |-> timers.refresh + (IF enough THEN 1 ELSE 0)]
  /\ connected' = TRUE
  /\ used' = [used EXCEPT !.lists = @ + 1]
  /\ UNCHANGED << taior, pendingHandshakes, waiting, codec, yMessages,
                  room, provider, page, dht >>
  /\ UNCHANGED << ws, keyPair, taiorWasm, now, dataChannels, hsExport, tasks,
                  out, wire, hsRecv, sends, delivered >>

\* A remote peer p opens a data channel to this node: its offer arrives
\* (handleOffer -> createPeerConnection(p, false)), pc.ondatachannel runs
\* setupDataChannel, and the channel announces itself open: onopen touches
\* lastSeen and calls sendHandshake, which stops at its await of exportKey.
channelOpen(p) ==
  /\ ws = "open"
  /\ dataChannels[p] = "none"
  /\ Cardinality(hsExport) < MaxExports
  /\ peers' = peers \cup {p}
  /\ dataChannels' = [dataChannels EXCEPT ![p] = "open"]
  /\ knownNodes' = IF has(p)
                   THEN [knownNodes EXCEPT ![p].lastSeen = now]
                   ELSE knownNodes
  /\ hsExport' = IF keyPair THEN hsExport \cup {p} ELSE hsExport
  /\ out' = [out EXCEPT ![p] = <<>>]
  /\ hsRecv' = hsRecv \ {p}
  /\ UNCHANGED << taior, pendingHandshakes, waiting, codec, yMessages,
                  room, provider, page, dht >>
  /\ UNCHANGED << ws, keyPair, taiorWasm, connected, now, circuits, timers,
                  tasks, wire, sends, delivered, used >>

\* sendHandshake after exportKey resolved: channel.send(0xBB || key).
handshakeExported(p) ==
  /\ p \in hsExport
  /\ hsExport' = hsExport \ {p}
  /\ out' = [out EXCEPT ![p] = Append(@, handshakeFrame(staticPub(Self)))]
  /\ UNCHANGED << taior, pendingHandshakes, waiting, codec, yMessages,
                  room, provider, page, dht >>
  /\ UNCHANGED << ws, keyPair, taiorWasm, connected, now, knownNodes, peers,
                  dataChannels, circuits, timers, tasks, wire, sends,
                  delivered, hsRecv, used >>

\* handleHandshake's write to the node object, seen through every circuit
\* that references the same object.
withKey(cs, p, key) ==
  [c \in 1..Len(cs) |->
     [cs[c] EXCEPT !.nodes =
        [i \in 1..Len(cs[c].nodes) |->
           IF cs[c].nodes[i].id = p /\ cs[c].nodes[i].gen = knownNodes[p].gen
           THEN [cs[c].nodes[i] EXCEPT !.publicKey = key]
           ELSE cs[c].nodes[i]]]]

\* channel.onmessage with data[0] = 0xBB: handleHandshake(data, p).  The
\* peer's own onopen sends its key once per channel; a frame carrying
\* anything else may come at any time.
handleHandshake(p, key, hookIds) ==
  /\ dataChannels[p] = "open"
  /\ IF key = staticPub(p)
     THEN p \notin hsRecv /\ used' = used
     ELSE used.badKeys < MaxBadKeys /\ events < MaxEvents /\ used' = [used EXCEPT !.badKeys = @ + 1]
  /\ hsRecv' = hsRecv \cup {p}
  /\ LET keyBytes == sliceFrom(handshakeFrame(key), 1)
         updated == [knownNodes EXCEPT ![p].publicKey = keyBytes]
     IN  IF has(p)
         THEN /\ knownNodes' = updated
              /\ circuits' = IF Len(circuits) = 0
                             THEN refreshCircuits(circuits, updated, hookIds)
                             ELSE withKey(circuits, p, keyBytes)
         ELSE UNCHANGED << knownNodes, circuits >>
  /\ UNCHANGED << taior, pendingHandshakes, waiting, codec, yMessages,
                  room, provider, page, dht >>
  /\ UNCHANGED << ws, keyPair, taiorWasm, connected, now, peers,
                  dataChannels, hsExport, timers, tasks, out, wire, sends,
                  delivered >>

\* channel.onclose of p's channel (the remote side or the substrate closed
\* it): dataChannels.delete(p).  A sendToNextHop asleep in its jitter keeps
\* the closed channel object; a sendHandshake awaiting exportKey will find
\* the channel closed and its channel.send error is caught.
closed(p) ==
  /\ dataChannels' = [dataChannels EXCEPT ![p] = "none"]
  /\ tasks' = { IF t.to = p /\ t.kind # "encrypt"
                 THEN [t EXCEPT !.dead = TRUE] ELSE t : t \in tasks }
  /\ hsExport' = hsExport \ {p}
  /\ hsRecv' = hsRecv \ {p}

onclose(p) ==
  /\ dataChannels[p] = "open"
  /\ used.faults < MaxFaults /\ events < MaxEvents
  /\ closed(p)
  /\ used' = [used EXCEPT !.faults = @ + 1]
  /\ UNCHANGED << taior, pendingHandshakes, waiting, codec, yMessages,
                  room, provider, page, dht >>
  /\ UNCHANGED << ws, keyPair, taiorWasm, connected, now, knownNodes, peers,
                  circuits, timers, out, wire, sends, delivered >>

\* pc.onconnectionstatechange with 'disconnected' or 'failed' on the
\* connection that carries p's channel: removePeer(p) (channel.close(),
\* dataChannels.delete, pc.close(), peers.delete), knownNodes.delete(p).
onconnectionstatechange(p) ==
  /\ dataChannels[p] = "open"
  /\ used.faults < MaxFaults /\ events < MaxEvents
  /\ closed(p)
  /\ peers' = peers \ {p}
  /\ knownNodes' = [knownNodes EXCEPT ![p] = [NoNode EXCEPT !.gen = @ + knownNodes[p].gen]]
  /\ used' = [used EXCEPT !.faults = @ + 1]
  /\ UNCHANGED << taior, pendingHandshakes, waiting, codec, yMessages,
                  room, provider, page, dht >>
  /\ UNCHANGED << ws, keyPair, taiorWasm, connected, now, circuits, timers,
                  out, wire, sends, delivered >>

\* Date.now() moves on.
clock(d) ==
  /\ used.ticks < MaxTicks /\ events < MaxEvents
  /\ now' = now + d
  /\ used' = [used EXCEPT !.ticks = @ + 1]
  /\ UNCHANGED << taior, pendingHandshakes, waiting, codec, yMessages,
                  room, provider, page, dht >>
  /\ UNCHANGED << ws, keyPair, taiorWasm, connected, knownNodes, peers,
                  dataChannels, hsExport, circuits, timers, tasks, out, wire,
                  hsRecv, sends, delivered >>

\* The setInterval of buildInitialCircuits fires: refreshCircuits().
refreshTimer(hookIds) ==
  /\ timers.refresh > 0
  /\ circuits' = refreshCircuits(circuits, knownNodes, hookIds)
  /\ UNCHANGED << taior, pendingHandshakes, waiting, codec, yMessages,
                  room, provider, page, dht >>
  /\ UNCHANGED << ws, keyPair, taiorWasm, connected, now, knownNodes, peers,
                  dataChannels, hsExport, timers, tasks, out, wire, hsRecv,
                  sends, delivered, used >>

\* One entry of the log of send() calls.  eligible is the number of nodes
\* buildCircuit would accept at the moment of the call; first and age are
\* the first hop and the age of the circuit the call takes.
sendEntry(payload, result, handed) ==
  [payload |-> payload, result |-> result, handed |-> handed,
   eligible |-> Cardinality(availableNodes(knownNodes)),
   first |-> IF Len(circuits) > 0 THEN circuits[1].nodes[1].id ELSE 0,
   age |-> IF Len(circuits) > 0 THEN now - circuits[1].createdAt ELSE 0]

task(kind, n, to, bytes, src) ==
  [kind |-> kind, n |-> n, to |-> to, bytes |-> bytes, src |-> src,
   dead |-> FALSE]

\* send(data) up to its await of encryptOnion: no circuit throws;
\* encryptOnion throws when importKey refuses a hop's key.
send(payload) ==
  /\ used.sends < MaxSends
  /\ used' = [used EXCEPT !.sends = @ + 1]
  /\ IF Len(circuits) = 0
     THEN /\ sends' = Append(sends, sendEntry(payload, "rejected", FALSE))
          /\ tasks' = tasks
     ELSE LET circuit == circuits[1]
              aorpPacket == buildAORPPacket(payload, hopIdsOf(circuit))
              onionPacket == encryptOnion(aorpPacket, hopsOf(circuit))
              peerId == circuit.nodes[1].id
          IN  IF ~onionPacket.ok
              THEN /\ sends' = Append(sends, sendEntry(payload, "rejected", FALSE))
                   /\ tasks' = tasks
              ELSE /\ sends' = Append(sends, sendEntry(payload, "pending", FALSE))
                   /\ tasks' = tasks \cup
                        { task("encrypt", Len(sends) + 1, peerId,
                               onionPacket.bytes, <<>>) }
  /\ UNCHANGED << taior, pendingHandshakes, waiting, codec, yMessages,
                  room, provider, page, dht >>
  /\ UNCHANGED << ws, keyPair, taiorWasm, connected, now, knownNodes, peers,
                  dataChannels, hsExport, circuits, timers, out, wire, hsRecv,
                  delivered >>

\* send(data) after encryptOnion resolved: sendToNextHop looks the first
\* hop's channel up; without an open one it returns at once and send
\* resolves, otherwise it sleeps its jitter timeout.
encrypted(t) ==
  /\ t \in tasks
  /\ t.kind = "encrypt"
  /\ IF dataChannels[t.to] = "open"
     THEN /\ tasks' = (tasks \ {t}) \cup { [t EXCEPT !.kind = "send"] }
          /\ sends' = sends
     ELSE /\ tasks' = tasks \ {t}
          /\ sends' = [sends EXCEPT ![t.n].result = "resolved"]
  /\ UNCHANGED << taior, pendingHandshakes, waiting, codec, yMessages,
                  room, provider, page, dht >>
  /\ UNCHANGED << ws, keyPair, taiorWasm, connected, now, knownNodes, peers,
                  dataChannels, hsExport, circuits, timers, out, wire, hsRecv,
                  delivered, used >>

\* The cover interval fires and shouldSendCover() says yes:
\* sendCoverTraffic() with the drawn size, up to the jitter timeout.
sendCoverTraffic(size) ==
  /\ timers.cover > 0
  /\ used.cover < MaxCover /\ events < MaxEvents
  /\ Len(circuits) > 0
  /\ used' = [used EXCEPT !.cover = @ + 1]
  /\ LET circuit == circuits[1]
         onionPacket == encryptOnion(coverData(size), hopsOf(circuit))
         peerId == circuit.nodes[1].id
     IN  tasks' = IF onionPacket.ok /\ dataChannels[peerId] = "open"
                  THEN tasks \cup { task("cover", 0, peerId,
                                         onionPacket.bytes, <<>>) }
                  ELSE tasks
  /\ UNCHANGED << taior, pendingHandshakes, waiting, codec, yMessages,
                  room, provider, page, dht >>
  /\ UNCHANGED << ws, keyPair, taiorWasm, connected, now, knownNodes, peers,
                  dataChannels, hsExport, circuits, timers, out, wire, hsRecv,
                  sends, delivered >>

\* sendToNextHop after its jitter timeout: channel.send(payload) on the
\* channel object it looked up before sleeping.  On a closed channel
\* channel.send throws: send() rejects, sendCoverTraffic and
\* handleOnionPacket catch.
channelSend(t) ==
  /\ t \in tasks
  /\ t.kind # "encrypt"
  /\ tasks' = tasks \ {t}
  /\ out' = IF t.dead THEN out ELSE [out EXCEPT ![t.to] = Append(@, t.bytes)]
  /\ sends' = IF t.kind = "send"
              THEN [sends EXCEPT ![t.n] =
                      [@ EXCEPT !.result = IF t.dead THEN "rejected" ELSE "resolved",
                                !.handed = ~t.dead]]
              ELSE sends
  /\ UNCHANGED << taior, pendingHandshakes, waiting, codec, yMessages,
                  room, provider, page, dht >>
  /\ UNCHANGED << ws, keyPair, taiorWasm, connected, now, knownNodes, peers,
                  dataChannels, hsExport, circuits, timers, wire, hsRecv,
                  delivered, used >>

\* disconnect(): cleanup() closes every channel and connection and clears
\* dataChannels, peers, circuits and knownNodes; then ws.close(), ws = null,
\* connected = false.  The two setInterval timers and keyPair are not
\* touched.  A sendToNextHop asleep in its jitter keeps its closed channel.
disconnect ==
  /\ ws = "open"
  /\ dataChannels' = [p \in Peer |-> "none"]
  /\ tasks' = { IF t.kind # "encrypt" THEN [t EXCEPT !.dead = TRUE] ELSE t :
                 t \in tasks }
  /\ hsExport' = {}
  /\ hsRecv' = {}
  /\ peers' = {}
  /\ circuits' = <<>>
  /\ knownNodes' = [p \in Peer |-> [NoNode EXCEPT !.gen = knownNodes[p].gen]]
  /\ ws' = "null"
  /\ connected' = FALSE
  /\ UNCHANGED << taior, pendingHandshakes, waiting, codec, yMessages,
                  room, provider, page, dht >>
  /\ UNCHANGED << keyPair, taiorWasm, now, timers, out, wire, sends,
                  delivered, used >>

\* channel.onmessage on p's channel with data[0] # 0xBB:
\* handleOnionPacket(data, p), up to the jitter timeout of a forward.
handleOnionPacket(p, data) ==
  /\ dataChannels[p] = "open"
  /\ used.inbound < MaxInbound /\ events < MaxEvents
  /\ used' = [used EXCEPT !.inbound = @ + 1]
  /\ LET o == onionOutcome(data, Self)
         to == nodeOfId(o.id)
     IN  /\ delivered' = IF o.kind = "deliver"
                         THEN Append(delivered, [at |-> Self, payload |-> o.bytes,
                                                 tag |-> "anonymous"])
                         ELSE delivered
         /\ tasks' = IF o.kind = "forward" /\ to \in Peer /\ dataChannels[to] = "open"
                     THEN tasks \cup { task("forward", 0, to, o.bytes, data) }
                     ELSE tasks
  /\ UNCHANGED << taior, pendingHandshakes, waiting, codec, yMessages,
                  room, provider, page, dht >>
  /\ UNCHANGED << ws, keyPair, taiorWasm, connected, now, knownNodes, peers,
                  dataChannels, hsExport, circuits, timers, out, wire, hsRecv,
                  sends >>

Next ==
  \/ connect
  \/ \E S \in PeerLists, hookIds \in HookChoices : peerList(S, hookIds)
  \/ \E p \in Peer : channelOpen(p)
  \/ \E p \in Peer : handshakeExported(p)
  \/ \E p \in Peer, hookIds \in HookChoices :
       \E key \in HandshakeKeys(p) : handleHandshake(p, key, hookIds)
  \/ \E p \in Peer : onclose(p)
  \/ \E p \in Peer : onconnectionstatechange(p)
  \/ \E d \in Advance : clock(d)
  \/ \E hookIds \in HookChoices : refreshTimer(hookIds)
  \/ \E payload \in Payloads : send(payload)
  \/ \E size \in CoverSizes : sendCoverTraffic(size)
  \/ \E t \in tasks : encrypted(t)
  \/ \E t \in tasks : channelSend(t)
  \/ \E p \in Peer, data \in InboundFrames : handleOnionPacket(p, data)
  \/ disconnect

Spec == Init /\ [][Next]_vars


(***************************************************************************)
(* The round trip.  The node is the originator A: connect(), one           *)
(* 'peer-list' naming its three peers, three channels opened and both      *)
(* handshakes exchanged on each, and the circuit refreshCircuits built on  *)
(* the last handshake.  The peers run the same AORPTransport: each takes   *)
(* the frames written to it and runs channel.onmessage on them, with a     *)
(* channel to every other node open.                                       *)
(***************************************************************************)
allKnown == [p \in Peer |-> [present |-> TRUE, gen |-> 1,
                             publicKey |-> staticPub(p), lastSeen |-> 0]]

InitTrip ==
  /\ ws = "open"
  /\ keyPair = TRUE
  /\ taiorWasm = "wasm"
  /\ connected = TRUE
  /\ now = 0
  /\ knownNodes = allKnown
  /\ peers = Peer
  /\ dataChannels = [p \in Peer |-> "open"]
  /\ hsExport = {}
  /\ circuits \in { buildCircuit(allKnown, minHops, hookIds) :
                      hookIds \in HookChoices }
  /\ timers = [cover |-> 1, refresh |-> 1]
  /\ tasks = {}
  /\ out = [p \in Peer |-> << handshakeFrame(staticPub(Self)) >>]
  /\ wire = [n \in Node |-> <<>>]
  /\ hsRecv = Peer
  /\ sends = <<>>
  /\ delivered = <<>>
  /\ used = NoUse
  /\ taior = createTaiorWasm
  /\ pendingHandshakes = {}
  /\ waiting = -1
  /\ codec = NoCodec
  /\ yMessages = <<>>
  /\ room = NoRoom
  /\ provider = NoProvider
  /\ page = NoPage
  /\ dht = NoDht

\* Peer p takes the oldest frame on a channel to it, the one from this
\* node (out) or the one from the other peers (wire), and runs
\* channel.onmessage: a 0xBB frame goes to its handleHandshake; anything
\* else to its handleOnionPacket, whose forward (sendToNextHop at p) ends
\* on the channel from p to the named node.
peerTakes(p, channel) ==
  LET queue == IF channel = "out" THEN out[p] ELSE wire[p]
      data == Head(queue)
      o == onionOutcome(data, p)
      to == nodeOfId(o.id)
      onion == byteAt(data, 0) # MagicHandshake
      forwarded == IF onion /\ o.kind = "forward" /\ to \in Node \ {p}
                   THEN [wire EXCEPT ![to] = Append(@, o.bytes)]
                   ELSE wire
  IN  /\ queue # <<>>
      /\ delivered' = IF onion /\ o.kind = "deliver"
                      THEN Append(delivered, [at |-> p, payload |-> o.bytes,
                                              tag |-> "anonymous"])
                      ELSE delivered
      /\ IF channel = "out"
         THEN out' = [out EXCEPT ![p] = Tail(@)] /\ wire' = forwarded
         ELSE out' = out /\ wire' = [forwarded EXCEPT ![p] = Tail(@)]
      /\ UNCHANGED << taior, pendingHandshakes, waiting, codec, yMessages,
                  room, provider, page, dht >>
      /\ UNCHANGED << ws, keyPair, taiorWasm, connected, now, knownNodes,
                      peers, dataChannels, hsExport, circuits, timers, tasks,
                      hsRecv, sends, used >>

NextTrip ==
  \/ \E payload \in Payloads : send(payload)
  \/ \E t \in tasks : encrypted(t)
  \/ \E size \in CoverSizes : sendCoverTraffic(size)
  \/ \E t \in tasks : channelSend(t)
  \/ \E p \in Peer, channel \in {"out", "wire"} : peerTakes(p, channel)

SpecTrip == InitTrip /\ [][NextTrip]_vars

(***************************************************************************)
(* Inbound frames.  The same connected node; remote peers write frames on  *)
(* the channels to it (wire[Self] keeps them in arrival order and          *)
(* used.inbound counts those channel.onmessage has handled), and the       *)
(* peers take what this node forwards.  Besides well-formed frames the     *)
(* peers write frames decryptLayer refuses and cover frames.               *)
(***************************************************************************)
MaxArrivals == 2

goodFrame ==
  sealedFor(Self, buildAORPPacket(<<104, 105>>, <<peerIdBytes(Self)>>))

\* The frame with the ciphertext cell at index i made to carry another value.
withCell(frame, i, inner) == [frame EXCEPT ![i] = CT(ctKey(frame[i]), inner)]

\* Frames whose layer cannot be peeled at this node: a ciphertext byte
\* changed, the tag changed, the frame cut below 1 + 65 + 12 bytes, the
\* ephemeral key replaced by bytes that are no curve point, and a layer
\* sealed for another node's key.
BrokenFrames ==
  LET first == 1 + PointLen + IvLen + 1
      last == Len(goodFrame)
  IN  { withCell(goodFrame, first, (ctInner(goodFrame[first]) + 1) % 256),
        withCell(goodFrame, last,
                 TagBase + ((ctInner(goodFrame[last]) - TagBase + 1) % DigestMod)),
        slice(goodFrame, 0, PointLen + IvLen),
        <<PointLen>> \o zeros(PointLen) \o sliceFrom(goodFrame, 1 + PointLen),
        sealedFor(2, buildAORPPacket(<<104, 105>>, <<peerIdBytes(Self)>>)) }

\* Cover frames: the bare cover data, cover data under one layer for this
\* node (what the last hop of a cover circuit receives), cover-tagged data
\* that carries this node's id in the destination field, and the onion
\* sendCoverTraffic builds for a circuit with this node as first hop.
CoverFrames ==
  { coverData(PadBoundary),
    sealedFor(Self, coverData(PadBoundary)),
    sealedFor(Self, <<MagicCover, 0>>
                      \o padTo(slice(peerIdBytes(Self), 0, DestLen), DestLen)
                      \o <<0, 2, 104, 105>>),
    encryptOnion(coverData(PadBoundary), honestHops(<<Self, 2, 3>>)).bytes }

\* Layers for this node around cleartexts that carry its id but are no
\* whole AORP packet: 18 bytes, magic, flags and destination only; and a
\* length field of 256 over a 2-byte payload.
MalformedFrames ==
  LET head == <<MagicAorp, 0>>
                \o padTo(slice(peerIdBytes(Self), 0, DestLen), DestLen)
  IN  { sealedFor(Self, head),
        sealedFor(Self, head \o <<1, 0, 104, 105>>) }

ArrivingFrames ==
  { goodFrame, sealedFor(Self, routedCleartext(2)) }
    \cup BrokenFrames \cup CoverFrames \cup MalformedFrames

\* A remote peer's frame reaches this node.
arrives(data) ==
  /\ Len(wire[Self]) < MaxArrivals
  /\ wire' = [wire EXCEPT ![Self] = Append(@, data)]
  /\ UNCHANGED << taior, pendingHandshakes, waiting, codec, yMessages,
                  room, provider, page, dht >>
  /\ UNCHANGED << ws, keyPair, taiorWasm, connected, now, knownNodes, peers,
                  dataChannels, hsExport, circuits, timers, tasks, out,
                  hsRecv, sends, delivered, used >>

\* channel.onmessage for the oldest frame not yet handled (none of the
\* frames starts with 0xBB): handleOnionPacket, up to the jitter timeout of
\* a forward.
onmessage ==
  /\ used.inbound < Len(wire[Self])
  /\ used' = [used EXCEPT !.inbound = @ + 1]
  /\ LET data == wire[Self][used.inbound + 1]
         o == onionOutcome(data, Self)
         to == nodeOfId(o.id)
     IN  /\ delivered' = IF o.kind = "deliver"
                         THEN Append(delivered, [at |-> Self, payload |-> o.bytes,
                                                 tag |-> "anonymous"])
                         ELSE delivered
         /\ tasks' = IF o.kind = "forward" /\ to \in Peer /\ dataChannels[to] = "open"
                     THEN tasks \cup { task("forward", 0, to, o.bytes, data) }
                     ELSE tasks
  /\ UNCHANGED << taior, pendingHandshakes, waiting, codec, yMessages,
                  room, provider, page, dht >>
  /\ UNCHANGED << ws, keyPair, taiorWasm, connected, now, knownNodes, peers,
                  dataChannels, hsExport, circuits, timers, out, wire, hsRecv,
                  sends >>

NextInbound ==
  \/ \E data \in ArrivingFrames : arrives(data)
  \/ onmessage
  \/ \E t \in tasks : channelSend(t)
  \/ \E p \in Peer, channel \in {"out", "wire"} : peerTakes(p, channel)

SpecInbound == InitTrip /\ [][NextInbound]_vars

(***************************************************************************)
(* The libtaior revision of the transport (src/unnamed/part_003): send     *)
(* and sendCoverTraffic hand the bytes to this.taiorWasm.send, the         *)
(* TaiorClient of src/lib/taior.ts, instead of encryptOnion.  The node is  *)
(* connected: createTaiorClient returned the WASM client or, the module    *)
(* failing to load, the shim of createTaiorLite; handshakes are done; the  *)
(* circuit exists or not; each peer's channel is open or not.              *)
(***************************************************************************)
InitLibtaior ==
  /\ ws = "open"
  /\ keyPair = TRUE
  /\ taiorWasm \in {"wasm", "lite"}
  /\ connected = TRUE
  /\ now = 0
  /\ knownNodes = allKnown
  /\ peers = Peer
  /\ dataChannels \in [Peer -> {"open", "none"}]
  /\ hsExport = {}
  /\ circuits \in { buildCircuit(allKnown, minHops, hookIds) :
                      hookIds \in HookChoices } \cup { <<>> }
  /\ timers = [cover |-> 1, refresh |-> 1]
  /\ tasks = {}
  /\ out = [p \in Peer |-> IF dataChannels[p] = "open"
                           THEN << handshakeFrame(staticPub(Self)) >>
                           ELSE <<>>]
  /\ wire = [n \in Node |-> <<>>]
  /\ hsRecv = { p \in Peer : dataChannels[p] = "open" }
  /\ sends = <<>>
  /\ delivered = <<>>
  /\ used = NoUse
  /\ taior = createTaiorWasm
  /\ pendingHandshakes = {}
  /\ waiting = -1
  /\ codec = NoCodec
  /\ yMessages = <<>>
  /\ room = NoRoom
  /\ provider = NoProvider
  /\ page = NoPage
  /\ dht = NoDht

\* What taiorInstance.send(payload, mode) of the WASM module does in one
\* call: return the routed packet ("sealed"), return no bytes ("empty") or
\* throw ("throws"); "gone" is taiorInstance being null.
WasmOutcomes == {"sealed", "empty", "throws", "gone"}

\* The routed packet of libtaior: every byte of the payload under a key of
\* the library, with a tag.
LibtaiorKey == 1
libtaiorSealed(payload) == aesGcmEncrypt(LibtaiorKey, payload)

\* TaiorClient.send(payload, mode): of createTaiorLite, the payload itself;
\* of createTaiorWasm, 'Taior not initialized' thrown without an instance,
\* else the bytes taiorInstance.send returned, and the payload itself when
\* it threw.
taiorSend(client, payload, outcome) ==
  IF client = "lite" THEN [ok |-> TRUE, bytes |-> payload]
  ELSE IF outcome = "gone" THEN [ok |-> FALSE, bytes |-> <<>>]
  ELSE IF outcome = "throws" THEN [ok |-> TRUE, bytes |-> payload]
  ELSE IF outcome = "empty" THEN [ok |-> TRUE, bytes |-> <<>>]
  ELSE [ok |-> TRUE, bytes |-> libtaiorSealed(payload)]

\* send(data) of part_003 up to the jitter timeout of sendToNextHop.
sendLibtaior(payload, outcome) ==
  /\ used.sends < MaxSends
  /\ used' = [used EXCEPT !.sends = @ + 1]
  /\ IF taiorWasm = "null" \/ Len(circuits) = 0
     THEN /\ sends' = Append(sends, sendEntry(payload, "rejected", FALSE))
          /\ tasks' = tasks
     ELSE LET circuit == circuits[1]
              encryptedPacket == taiorSend(taiorWasm, payload, outcome)
              peerId == circuit.nodes[1].id
          IN  IF ~encryptedPacket.ok \/ Len(encryptedPacket.bytes) = 0
              THEN /\ sends' = Append(sends, sendEntry(payload, "rejected", FALSE))
                   /\ tasks' = tasks
              ELSE IF dataChannels[peerId] # "open"
              THEN /\ sends' = Append(sends, sendEntry(payload, "resolved", FALSE))
                   /\ tasks' = tasks
              ELSE /\ sends' = Append(sends, sendEntry(payload, "pending", FALSE))
                   /\ tasks' = tasks \cup
                        { task("send", Len(sends) + 1, peerId,
                               encryptedPacket.bytes, <<>>) }
  /\ UNCHANGED << taior, pendingHandshakes, waiting, codec, yMessages,
                  room, provider, page, dht >>
  /\ UNCHANGED << ws, keyPair, taiorWasm, connected, now, knownNodes, peers,
                  dataChannels, hsExport, circuits, timers, out, wire, hsRecv,
                  delivered >>

\* sendCoverTraffic() of part_003 up to the jitter timeout.
sendCoverLibtaior(size, outcome) ==
  /\ timers.cover > 0
  /\ used.cover < MaxCover /\ events < MaxEvents
  /\ Len(circuits) > 0 /\ taiorWasm # "null"
  /\ used' = [used EXCEPT !.cover = @ + 1]
  /\ LET circuit == circuits[1]
         encryptedCover == taiorSend(taiorWasm, coverData(size), outcome)
         peerId == circuit.nodes[1].id
     IN  tasks' = IF encryptedCover.ok /\ dataChannels[peerId] = "open"
                  THEN tasks \cup { task("cover", 0, peerId,
                                         encryptedCover.bytes, <<>>) }
                  ELSE tasks
  /\ UNCHANGED << taior, pendingHandshakes, waiting, codec, yMessages,
                  room, provider, page, dht >>
  /\ UNCHANGED << ws, keyPair, taiorWasm, connected, now, knownNodes, peers,
                  dataChannels, hsExport, circuits, timers, out, wire, hsRecv,
                  sends, delivered >>

NextLibtaior ==
  \/ \E payload \in Payloads, outcome \in WasmOutcomes :
       sendLibtaior(payload, outcome)
  \/ \E size \in CoverSizes, outcome \in WasmOutcomes :
       sendCoverLibtaior(size, outcome)
  \/ \E t \in tasks : channelSend(t)
  \/ \E p \in Peer : onclose(p)

SpecLibtaior == InitLibtaior /\ [][NextLibtaior]_vars

(***************************************************************************)
(* The directory of the libtaior revision (src/unnamed/part_003) from     *)
(* connect() on: discoverNodes enters peers with an empty key and marks    *)
(* them pending, buildInitialCircuits waits in waitForHandshakes, and      *)
(* handleHandshake checks the key length, stamps lastSeen and also enters  *)
(* peers it did not know.  Channels, handshake export and connection loss  *)
(* are the same code as in the WebCrypto variant.                          *)
(***************************************************************************)
handshakeTimeout == 5000
MaxWaits == 1                       \* clock advances while the node waits

\* isInvalidKey of this revision also refuses the empty key: buildCircuit
\* sees the directory without the entries that hold one.
keyed(kn) ==
  [p \in Peer |-> IF Len(kn[p].publicKey) = 0
                  THEN [kn[p] EXCEPT !.present = FALSE]
                  ELSE kn[p]]

\* What a 0xBB frame from peer p may carry here: its key, nothing, and the
\* first 33 bytes of its key.
HandshakeKeysLibtaior(p) == { staticPub(p), <<>>, slice(staticPub(p), 0, 33) }

InitHandshake ==
  /\ ws = "open"
  /\ keyPair = TRUE
  /\ taiorWasm = "wasm"
  /\ connected = FALSE
  /\ now = 0
  /\ knownNodes = [p \in Peer |-> NoNode]
  /\ peers = {}
  /\ dataChannels = [p \in Peer |-> "none"]
  /\ hsExport = {}
  /\ circuits = <<>>
  /\ timers = [cover |-> 0, refresh |-> 0]
  /\ tasks = {}
  /\ out = [p \in Peer |-> <<>>]
  /\ wire = [n \in Node |-> <<>>]
  /\ hsRecv = {}
  /\ sends = <<>>
  /\ delivered = <<>>
  /\ used = NoUse
  /\ taior = createTaiorWasm
  /\ pendingHandshakes = {}
  /\ waiting = -1
  /\ codec = NoCodec
  /\ yMessages = <<>>
  /\ room = NoRoom
  /\ provider = NoProvider
  /\ page = NoPage
  /\ dht = NoDht

\* discoverNodes(peerIds) of this revision: the directory after the loop.
discoveredLibtaior(S) ==
  [p \in Peer |->
     IF p \in S /\ ~has(p)
     THEN [present |-> TRUE, gen |-> knownNodes[p].gen + 1,
           publicKey |-> <<>>, lastSeen |-> now]
     ELSE knownNodes[p]]

\* ws.onmessage for a 'peer-list' message naming the peers S, up to the
\* first test of the loop in waitForHandshakes: discoverNodes, then
\* buildInitialCircuits calls waitForHandshakes, which notes startTime.
peerListLibtaior(S) ==
  /\ ws = "open"
  /\ used.lists < MaxPeerLists
  /\ waiting = -1
  /\ knownNodes' = discoveredLibtaior(S)
  /\ pendingHandshakes' = pendingHandshakes \cup { p \in S : ~has(p) }
  /\ peers' = peers \cup { p \in S : ~has(p) }
  /\ waiting' = now
  /\ used' = [used EXCEPT !.lists = @ + 1]
  /\ UNCHANGED << ws, keyPair, taiorWasm, connected, now, dataChannels,
                  hsExport, circuits, timers, tasks, out, wire, hsRecv, sends,
                  delivered, taior, codec, yMessages,
                  room, provider, page, dht >>

\* The loop of waitForHandshakes finds nothing pending or the timeout
\* passed: the peers still pending leave the directory and the pending set
\* is cleared; buildInitialCircuits goes on (too few nodes: return; else
\* buildCircuit and the refresh interval), then startCoverTraffic and
\* connected = true.
waitForHandshakes(hookIds) ==
  /\ waiting >= 0
  /\ pendingHandshakes = {} \/ now - waiting >= handshakeTimeout
  /\ LET kept == [p \in Peer |->
                    IF p \in pendingHandshakes
                    THEN [NoNode EXCEPT !.gen = knownNodes[p].gen]
                    ELSE knownNodes[p]]
         enough == Cardinality(knownIds(kept)) >= minHops
     IN  /\ knownNodes' = kept
         /\ circuits' = IF enough
                        THEN circuits \o buildCircuit(keyed(kept), minHops, hookIds)
                        ELSE circuits
         /\ timers' = [cover |-> timers.cover + 1,
                       refresh |-> timers.refresh + (IF enough THEN 1 ELSE 0)]
  /\ pendingHandshakes' = {}
  /\ waiting' = -1
  /\ connected' = TRUE
  /\ UNCHANGED << ws, keyPair, taiorWasm, now, peers, dataChannels, hsExport,
                  tasks, out, wire, hsRecv, sends, delivered, used, taior,
                  codec, yMessages,
                  room, provider, page, dht >>

\* channel.onmessage with data[0] = 0xBB in this revision:
\* handleHandshake(data, p).
handleHandshakeLibtaior(p, key, hookIds) ==
  /\ dataChannels[p] = "open"
  /\ IF key = staticPub(p)
     THEN p \notin hsRecv /\ used' = used
     ELSE used.badKeys < MaxBadKeys /\ used' = [used EXCEPT !.badKeys = @ + 1]
  /\ hsRecv' = hsRecv \cup {p}
  /\ LET keyBytes == sliceFrom(handshakeFrame(key), 1)
         updated == [knownNodes EXCEPT ![p].publicKey = keyBytes,
                                       ![p].lastSeen = now]
         pending == pendingHandshakes \ {p}
     IN  IF Len(keyBytes) < 32
         THEN UNCHANGED << knownNodes, circuits, pendingHandshakes >>
         ELSE IF has(p)
         THEN /\ knownNodes' = updated
              /\ pendingHandshakes' = pending
              /\ circuits' = IF Len(circuits) = 0 /\ pending = {}
                             THEN refreshCircuits(circuits, keyed(updated), hookIds)
                             ELSE withKey(circuits, p, keyBytes)
         ELSE /\ knownNodes' = [knownNodes EXCEPT ![p] =
                                  [present |-> TRUE, gen |-> @.gen + 1,
                                   publicKey |-> keyBytes, lastSeen |-> now]]
              /\ UNCHANGED << circuits, pendingHandshakes >>
  /\ UNCHANGED << ws, keyPair, taiorWasm, connected, now, peers,
                  dataChannels, hsExport, timers, tasks, out, wire, sends,
                  delivered, taior, waiting, codec, yMessages,
                  room, provider, page, dht >>

\* Date.now() moves on while the node runs.
elapse(d) ==
  /\ used.ticks < MaxWaits
  /\ now' = now + d
  /\ used' = [used EXCEPT !.ticks = @ + 1]
  /\ UNCHANGED << ws, keyPair, taiorWasm, connected, knownNodes, peers,
                  dataChannels, hsExport, circuits, timers, tasks, out, wire,
                  hsRecv, sends, delivered, taior, pendingHandshakes, waiting,
                  codec, yMessages,
                  room, provider, page, dht >>

\* The refresh interval of buildInitialCircuits fires in this revision.
refreshTimerLibtaior(hookIds) ==
  /\ timers.refresh > 0
  /\ circuits' = refreshCircuits(circuits, keyed(knownNodes), hookIds)
  /\ UNCHANGED << ws, keyPair, taiorWasm, connected, now, knownNodes, peers,
                  dataChannels, hsExport, timers, tasks, out, wire, hsRecv,
                  sends, delivered, used, taior, pendingHandshakes, waiting,
                  codec, yMessages,
                  room, provider, page, dht >>

NextHandshake ==
  \/ \E S \in PeerLists : peerListLibtaior(S)
  \/ \E hookIds \in HookChoices : waitForHandshakes(hookIds)
  \/ \E p \in Peer : channelOpen(p)
  \/ \E p \in Peer : handshakeExported(p)
  \/ \E p \in Peer, hookIds \in HookChoices :
       \E key \in HandshakeKeysLibtaior(p) :
         handleHandshakeLibtaior(p, key, hookIds)
  \/ \E p \in Peer : onconnectionstatechange(p)
  \/ \E d \in {handshakeTimeout} : elapse(d)
  \/ \E hookIds \in HookChoices : refreshTimerLibtaior(hookIds)
  \/ disconnect

SpecHandshake == InitHandshake /\ [][NextHandshake]_vars

(***************************************************************************)
(* Discovery over several 'peer-list' messages.  The signaling server      *)
(* sends one to a node when it joins and one more whenever another peer    *)
(* joins the room, so ws.onmessage runs its 'peer-list' branch as often as *)
(* peers come; a list may name peers the node knows and, as far as the     *)
(* transport can tell, the node itself.                                    *)
(***************************************************************************)
MaxLists == 2                       \* 'peer-list' messages handled
DiscoveryLists == { {2, 3, 4}, {2}, {1, 2} }
Pause == 1000                       \* ms between two signaling messages

\* the loop of discoverNodes(peerIds): the ids it enters and connects to
entered(S) == { p \in S : p # Self /\ ~has(p) }

\* ws.onmessage for a 'peer-list' message naming the ids S, one of several.
onPeerList(S, hookIds) ==
  /\ ws = "open"
  /\ used.lists < MaxLists
  /\ knownNodes' = discovered(S)
  /\ peers' = peers \cup entered(S)
  /\ LET enough == Cardinality(knownIds(discovered(S))) >= minHops
     IN  /\ circuits' = IF enough
                        THEN circuits
                               \o buildCircuit(discovered(S), minHops, hookIds)
                        ELSE circuits
         /\ timers' = [cover |-> timers.cover + 1,
                       refresh |-> timers.refresh + (IF enough THEN 1 ELSE 0)]
  /\ connected' = TRUE
  /\ used' = [used EXCEPT !.lists = @ + 1]
  /\ UNCHANGED << ws, keyPair, taiorWasm, now, dataChannels, hsExport, tasks,
                  out, wire, hsRecv, sends, delivered, taior,
                  pendingHandshakes, waiting, codec, yMessages,
                  room, provider, page, dht >>

NextDiscovery ==
  \/ connect
  \/ \E S \in DiscoveryLists, hookIds \in HookChoices : onPeerList(S, hookIds)
  \/ \E p \in Peer : channelOpen(p)
  \/ \E p \in Peer : handshakeExported(p)
  \/ \E p \in Peer, hookIds \in HookChoices :
       handleHandshake(p, staticPub(p), hookIds)
  \/ clock(Pause)

SpecDiscovery == Init /\ [][NextDiscovery]_vars

(***************************************************************************)
(* A room.  Four AORPTransport nodes and one peer of another kind, which   *)
(* opens connections itself as WebRTCTransport does and speaks the 0xBB    *)
(* handshake, join one room of the signaling server.  Per transport the    *)
(* room keeps what connection setup depends on: the ids it knows, its      *)
(* open channels, the keys it holds, whether it has a circuit and its      *)
(* connected flag.  The server is taken to treat the transports' join      *)
(* message as it treats 'join'.                                            *)
(***************************************************************************)
RoomNodes == 1..4                   \* the AORPTransport nodes
Initiator == 5                      \* the peer that creates offers
Members == RoomNodes \cup {Initiator}

exceptRoom == << ws, keyPair, taiorWasm, connected, now, knownNodes, peers,
                 dataChannels, hsExport, circuits, timers, tasks, out, wire,
                 hsRecv, sends, delivered, used, taior, pendingHandshakes,
                 waiting, codec, yMessages, provider, page, dht >>

EmptyRoom ==
  [joined |-> {}, inbox |-> [n \in RoomNodes |-> <<>>],
   known |-> [n \in RoomNodes |-> {}], offers |-> {},
   open |-> {}, hello |-> {}, keyed |-> {}, circuits |-> {},
   connected |-> {}]

InitRoom ==
  /\ Constructed
  /\ taior = createTaiorWasm
  /\ pendingHandshakes = {}
  /\ waiting = -1
  /\ codec = NoCodec
  /\ yMessages = <<>>
  /\ room = EmptyRoom
  /\ provider = NoProvider
  /\ page = NoPage
  /\ dht = NoDht

\* The nodes of the directory of n that buildCircuit would take: known,
\* with a key received.
usable(r, n) == { p \in r.known[n] : << n, p >> \in r.keyed }

\* createPeerConnection(p, initiator) on node n: the offers in flight
\* after it.  Without initiator the node only waits for pc.ondatachannel.
createPeerConnection(r, n, p, initiator) ==
  IF initiator THEN r.offers \cup { << n, p >> } ELSE r.offers

\* Member m opens its socket and joins: the server sends m the list of the
\* others and every other member a list naming m.  The transports run the
\* same code, so they are taken to join in the order of their ids.  The
\* peer of the other kind handles a list as it comes: it calls
\* createPeerConnection(p, true) for every id named.
joinRoom(m) ==
  /\ m \notin room.joined
  /\ m \in RoomNodes => \A k \in RoomNodes : k < m => k \in room.joined
  /\ LET named == IF m = Initiator THEN room.joined
                  ELSE IF Initiator \in room.joined THEN {m} ELSE {}
     IN  room' = [room EXCEPT
           !.joined = @ \cup {m},
           !.inbox = [k \in RoomNodes |->
                        IF k = m THEN Append(@[k], room.joined)
                        ELSE IF k \in room.joined THEN Append(@[k], {m})
                        ELSE @[k]],
           !.offers = UNION ({ @ } \cup
                        { createPeerConnection(room, Initiator, p, TRUE) :
                            p \in named })]
  /\ UNCHANGED exceptRoom

\* ws.onmessage of transport n for the 'peer-list' message at the head of
\* its socket: discoverNodes (createPeerConnection(p, false) for every new
\* id), buildInitialCircuits, connected = true.
peerListRoom(n) ==
  /\ Len(room.inbox[n]) > 0
  /\ LET S == Head(room.inbox[n])
         new == { p \in S : p # n /\ p \notin room.known[n] }
         r1 == [room EXCEPT !.inbox[n] = Tail(@),
                            !.known[n] = @ \cup new]
         r2 == [r1 EXCEPT !.offers =
                  UNION ({ r1.offers } \cup
                         { createPeerConnection(r1, n, p, FALSE) : p \in new })]
         built == /\ Cardinality(r2.known[n]) >= minHops
                  /\ Cardinality(usable(r2, n)) >= minHops
     IN  room' = [r2 EXCEPT
                    !.circuits = IF built THEN @ \cup {n} ELSE @,
                    !.connected = @ \cup {n}]
  /\ UNCHANGED exceptRoom

\* handleOffer(p, offer) on transport n: createPeerConnection(p, false),
\* then the answer goes back through the server; with it the connection
\* comes up and the channel p created opens at both ends.  The 0xBB frame
\* of p is on its way to n (the one n sends from its onopen is of no
\* consequence here).
handleOffer(n, p) ==
  /\ << p, n >> \in room.offers
  /\ room' = [room EXCEPT !.offers = createPeerConnection(
                                        [room EXCEPT !.offers = @ \ {<< p, n >>}],
                                        n, p, FALSE),
                          !.open = @ \cup { << n, p >>, << p, n >> },
                          !.hello = @ \cup { << p, n >> }]
  /\ UNCHANGED exceptRoom

\* channel.onmessage of transport n with the 0xBB frame of p:
\* handleHandshake stores the key of a known node and, with no circuit,
\* runs refreshCircuits.
handleHello(n, p) ==
  /\ << p, n >> \in room.hello
  /\ LET r1 == [room EXCEPT !.hello = @ \ { << p, n >> }]
         r2 == [r1 EXCEPT !.keyed = @ \cup { << n, p >> }]
     IN  room' = IF p \in room.known[n]
                 THEN [r2 EXCEPT !.circuits =
                         IF n \notin @ /\ Cardinality(usable(r2, n)) >= minHops
                         THEN @ \cup {n} ELSE @]
                 ELSE r1
  /\ UNCHANGED exceptRoom

NextRoom ==
  \/ \E m \in Members : joinRoom(m)
  \/ \E n \in RoomNodes : peerListRoom(n)
  \/ \E n \in RoomNodes, p \in Members : handleOffer(n, p)
  \/ \E n \in RoomNodes, p \in Members : handleHello(n, p)

\* Signaling messages and frames in flight are delivered and handled.
SpecRoom == InitRoom /\ [][NextRoom]_vars /\ WF_vars(NextRoom)

(***************************************************************************)
(* TaiorProvider (src/lib/yjs-taior-provider.ts) between a Yjs document    *)
(* and a transport.  An update is a number; the document is the set of     *)
(* updates applied to it, and applying one it already holds changes        *)
(* nothing and emits no 'update' event.  provider.sent is what the         *)
(* provider handed to transport.send, provider.heard the local updates     *)
(* that were emitted while the handler was registered.                     *)
(***************************************************************************)
LocalUpdates == {1, 2, 3}           \* changes made on this document
RemoteUpdates == {11, 12}           \* changes made by peers
StateVector == 0                    \* Y.encodeStateVector(doc)

exceptProvider == << ws, keyPair, taiorWasm, connected, now, knownNodes,
                     peers, dataChannels, hsExport, circuits, timers, tasks,
                     out, wire, hsRecv, sends, delivered, used, taior,
                     pendingHandshakes, waiting, codec, yMessages, room,
                     page, dht >>

\* the handler without its origin test
updateHandler_anyOrigin(sent, update, origin) == Append(sent, update)

\* this.updateHandler(update, origin): what transport.send has been
\* handed after it.
updateHandler(sent, update, origin) ==
  IF origin # "this" THEN Append(sent, update) ELSE sent

\* The document emits 'update' for a change with the given origin.
emitted(update, origin) ==
  IF provider.updateHandler
  THEN updateHandler(provider.sent, update, origin)
  ELSE provider.sent

\* A change is made on the document by the application (origin null).
docUpdate(u) ==
  /\ u \notin provider.doc
  /\ provider' = [provider EXCEPT
       !.doc = @ \cup {u},
       !.sent = emitted(u, "null"),
       !.heard = IF provider.updateHandler THEN @ \cup {u} ELSE @]
  /\ UNCHANGED exceptProvider

\* The callback given to transport.onMessage runs with data u:
\* Y.applyUpdate(doc, data, this).  (Data the document already holds
\* changes nothing.)
transportMessage(u) ==
  /\ u \notin provider.doc
  /\ provider' = [provider EXCEPT !.doc = @ \cup {u},
                                  !.sent = emitted(u, "this")]
  /\ UNCHANGED exceptProvider

\* provider.connect(): transport.connect, then the state vector is sent.
providerConnect ==
  /\ ~provider.connected
  /\ provider.updateHandler
  /\ provider' = [provider EXCEPT !.connected = TRUE,
                                  !.sent = Append(@, StateVector)]
  /\ UNCHANGED exceptProvider

\* provider.disconnect(): doc.off('update', handler), transport.disconnect
providerDisconnect ==
  /\ provider.updateHandler
  /\ provider' = [provider EXCEPT !.updateHandler = FALSE,
                                  !.connected = FALSE]
  /\ UNCHANGED exceptProvider

NextProvider ==
  \/ \E u \in LocalUpdates : docUpdate(u)
  \/ \E u \in RemoteUpdates : transportMessage(u)
  \/ providerConnect
  \/ providerDisconnect

SpecProvider == Init /\ [][NextProvider]_vars

(***************************************************************************)
(* The chat page (src/routes/+page.svelte): onMount and join call          *)
(* createSession, which resolves later or fails; page.status tells for     *)
(* every call whether its session is being created, live, disconnected or  *)
(* was never made.                                                         *)
(***************************************************************************)
exceptPage == << ws, keyPair, taiorWasm, connected, now, knownNodes, peers,
                 dataChannels, hsExport, circuits, timers, tasks, out, wire,
                 hsRecv, sends, delivered, used, taior, pendingHandshakes,
                 waiting, codec, yMessages, room, provider, dht >>

\* session.disconnect() on the session 'session' refers to, if any
sessionDisconnected(status, session) ==
  IF session # 0 THEN [status EXCEPT ![session] = "disconnected"] ELSE status

\* onMount up to its await: createSession('LOBBY', 'system', hid).
onMount ==
  /\ page.status[1] = "idle"
  /\ page' = [page EXCEPT !.status[1] = "creating"]
  /\ UNCHANGED exceptPage

\* join() up to its await: the session held, if any, is disconnected and
\* createSession is called.
join(c) ==
  /\ c > 1
  /\ page.status[c] = "idle"
  /\ page.status[c - 1] # "idle"
  /\ page' = [page EXCEPT
       !.status = [sessionDisconnected(page.status, page.session)
                     EXCEPT ![c] = "creating"]]
  /\ UNCHANGED exceptPage

\* createSession of call c resolves: session = the new session.
sessionCreated(c) ==
  /\ page.status[c] = "creating"
  /\ page' = [page EXCEPT !.status[c] = "live", !.session = c]
  /\ UNCHANGED exceptPage

\* createSession of call c rejects: the call ends, 'session' stays.
sessionFailed(c) ==
  /\ page.status[c] = "creating"
  /\ page' = [page EXCEPT !.status[c] = "failed"]
  /\ UNCHANGED exceptPage

NextPage ==
  \/ onMount
  \/ \E c \in Calls : join(c)
  \/ \E c \in Calls : sessionCreated(c)
  \/ \E c \in Calls : sessionFailed(c)

SpecPage == Init /\ [][NextPage]_vars

(***************************************************************************)
(* SimpleDHT (src/lib/dht.ts).  A node id is the byte sequence its hex     *)
(* string spells, two digits a byte, which is what xorDistance reads.      *)
(***************************************************************************)
DhtK == 3                           \* config.k of the table under study
refreshInterval == 60000
dhtNodeId == << 0, 0 >>             \* config.nodeId
DhtIds == { << 1, 0 >>, << 3, 0 >>, << 0, 3 >>, << 3, 1 >>, << 7 >> }

exceptDht == << ws, keyPair, taiorWasm, connected, now, knownNodes, peers,
                dataChannels, hsExport, circuits, timers, tasks, out, wire,
                hsRecv, sends, delivered, used, taior, pendingHandshakes,
                waiting, codec, yMessages, room, provider, page >>

\* byte1 ^ byte2
RECURSIVE bitXor(_, _)
bitXor(a, b) ==
  IF a = 0 /\ b = 0 THEN 0
  ELSE (((a % 2) + (b % 2)) % 2) + 2 * bitXor(a \div 2, b \div 2)

\* xorDistance(id1, id2): the sum of the XORs of the bytes both ids have
RECURSIVE xorSum(_, _, _)
xorSum(id1, id2, i) ==
  IF i > Min(Len(id1), Len(id2)) THEN 0
  ELSE bitXor(id1[i], id2[i]) + xorSum(id1, id2, i + 1)
xorDistance(id1, id2) == xorSum(id1, id2, 1)

\* the position of id in the table, 0 when it is not there
position(table, id) ==
  IF \E i \in 1..Len(table) : table[i].id = id
  THEN CHOOSE i \in 1..Len(table) : table[i].id = id
  ELSE 0

without(table, i) ==
  [j \in 1..(Len(table) - 1) |-> IF j < i THEN table[j] ELSE table[j + 1]]

\* eviction of the entry added first
evictFarthestNode_oldest(table) == without(table, 1)

\* evictFarthestNode(): the first entry, in the order of the Map, whose
\* distance no other exceeds, is deleted.
evictFarthestNode(table) ==
  LET far == CHOOSE i \in 1..Len(table) :
               /\ \A j \in 1..Len(table) : table[j].distance <= table[i].distance
               /\ \A j \in 1..(i - 1) : table[j].distance < table[i].distance
  IN  IF Len(table) = 0 THEN table ELSE without(table, far)

\* addNode(node) for a node with the given id
addNode(id) ==
  /\ LET node == [id |-> id, distance |-> xorDistance(dhtNodeId, id),
                  lastSeen |-> now]
         at == position(dht.routingTable, id)
         set == IF at = 0 THEN Append(dht.routingTable, node)
                ELSE [dht.routingTable EXCEPT ![at] = node]
     IN  dht' = [dht EXCEPT
                   !.routingTable = IF Len(set) > DhtK
                                    THEN evictFarthestNode(set) ELSE set,
                   !.evicted = @ \/ Len(set) > DhtK]
  /\ UNCHANGED exceptDht

\* updateNodeSeen(nodeId)
updateNodeSeen(id) ==
  /\ position(dht.routingTable, id) # 0
  /\ dht' = [dht EXCEPT
               !.routingTable[position(dht.routingTable, id)].lastSeen = now]
  /\ UNCHANGED exceptDht

\* bootstrap() with no bootstrap address: startRefreshLoop().
bootstrap ==
  /\ dht' = [dht EXCEPT !.refreshTimer = TRUE]
  /\ UNCHANGED exceptDht

\* The refresh interval fires: refreshRoutingTable().
refreshRoutingTable ==
  /\ dht.refreshTimer
  /\ dht' = [dht EXCEPT !.routingTable =
               SelectSeq(@, LAMBDA n : ~(now - n.lastSeen > refreshInterval * 2))]
  /\ UNCHANGED exceptDht

\* destroy()
destroy ==
  /\ dht' = [dht EXCEPT !.routingTable = <<>>, !.refreshTimer = FALSE]
  /\ UNCHANGED exceptDht

NextDht ==
  \/ \E id \in DhtIds : addNode(id)
  \/ \E id \in DhtIds : updateNodeSeen(id)
  \/ bootstrap
  \/ refreshRoutingTable
  \/ destroy
  \/ elapse(refreshInterval * 2 + 1)

SpecDht == Init /\ [][NextDht]_vars

(***************************************************************************)
(* The TaiorClient that createTaiorWasm of src/lib/taior.ts returns, on    *)
(* its own: the timeout that constructs the WASM instance and resolves     *)
(* ready, the callers of send(), and disconnect().  ready is "pending"     *)
(* until the timeout runs, then "resolved", or "abandoned" when the        *)
(* constructor threw: resolve was not called and nothing else holds it.    *)
(***************************************************************************)
MaxCalls == 3

\* setTimeout(..., 100) inside the ready promise: new wasm.TaiorWasm()
\* returns (constructed) or throws.
readyTimeout(constructed) ==
  /\ taior.ready = "pending"
  /\ taior' = IF constructed
              THEN [taior EXCEPT !.taiorInstance = TRUE,
                                 !.status = "connected",
                                 !.ready = "resolved"]
              ELSE [taior EXCEPT !.status = "disconnected",
                                 !.ready = "abandoned"]
  /\ UNCHANGED << ws, keyPair, taiorWasm, connected, now, knownNodes, peers,
                  dataChannels, hsExport, circuits, timers, tasks, out, wire,
                  hsRecv, sends, delivered, used, pendingHandshakes, waiting,
                  codec, yMessages,
                  room, provider, page, dht >>

\* send(payload, mode) is called: it stops at 'await ready'.  initialized
\* records whether the client held an instance at the call.
taiorClientSend(payload) ==
  /\ Len(taior.calls) < MaxCalls
  /\ taior' = [taior EXCEPT !.calls =
                 Append(@, [payload |-> payload,
                            initialized |-> taior.taiorInstance,
                            result |-> "pending", bytes |-> <<>>])]
  /\ UNCHANGED << ws, keyPair, taiorWasm, connected, now, knownNodes, peers,
                  dataChannels, hsExport, circuits, timers, tasks, out, wire,
                  hsRecv, sends, delivered, used, pendingHandshakes, waiting,
                  codec, yMessages,
                  room, provider, page, dht >>

\* Call i continues after 'await ready': without an instance it throws
\* 'Taior not initialized'; else it returns what taiorInstance.send gave,
\* or the payload when that threw.
taiorClientResumes(i, outcome) ==
  /\ i \in 1..Len(taior.calls)
  /\ taior.calls[i].result = "pending"
  /\ taior.ready = "resolved"
  /\ LET r == taiorSend("wasm", taior.calls[i].payload,
                        IF taior.taiorInstance THEN outcome ELSE "gone")
     IN  taior' = [taior EXCEPT !.calls[i].result =
                                   IF r.ok THEN "returned" ELSE "rejected",
                                 !.calls[i].bytes = r.bytes]
  /\ UNCHANGED << ws, keyPair, taiorWasm, connected, now, knownNodes, peers,
                  dataChannels, hsExport, circuits, timers, tasks, out, wire,
                  hsRecv, sends, delivered, used, pendingHandshakes, waiting,
                  codec, yMessages,
                  room, provider, page, dht >>

\* disconnect() of the client.
taiorDisconnect ==
  /\ taior' = [taior EXCEPT !.status = "disconnected",
                            !.taiorInstance = FALSE]
  /\ UNCHANGED << ws, keyPair, taiorWasm, connected, now, knownNodes, peers,
                  dataChannels, hsExport, circuits, timers, tasks, out, wire,
                  hsRecv, sends, delivered, used, pendingHandshakes, waiting,
                  codec, yMessages,
                  room, provider, page, dht >>

NextTaior ==
  \/ \E constructed \in BOOLEAN : readyTimeout(constructed)
  \/ \E payload \in Payloads : taiorClientSend(payload)
  \/ \E i \in 1..MaxCalls, outcome \in WasmOutcomes \ {"gone"} :
       taiorClientResumes(i, outcome)
  \/ taiorDisconnect

SpecTaior == Init /\ [][NextTaior]_vars

(***************************************************************************)
(* The codec on its own: buildAORPPacket applied to a payload and the      *)
(* node ids of a circuit, then removePadding applied to the packet, as the *)
(* destination does after isForMe.  Payload lengths lie around the header, *)
(* the padding boundary and the 16-bit length field; node ids are 16 bytes *)
(* as elsewhere, shorter, or longer.                                       *)
(***************************************************************************)
MaxPayloadLen == 65535              \* what the two length bytes can say
PayloadLengths ==
  { 0, 1, 2, 255, 256, 257, 491, 492, 493, 1003, 1004, 1005,
    MaxPayloadLen, MaxPayloadLen + 1 }
PayloadFills == { 0, 200 }
payloadOf(n, fill) == [i \in 1..n |-> (fill + i) % 256]

\* new TextEncoder().encode(id) of ids of 16, 4 and 17 characters
LongId == [i \in 1..(DestLen + 1) |-> 96 + i]
ShortId == <<110, 111, 100, 101>>
CodecCircuits ==
  { << peerIdBytes(2) >>,
    << peerIdBytes(2), peerIdBytes(3), peerIdBytes(4) >>,
    << peerIdBytes(2), peerIdBytes(3), ShortId >>,
    << peerIdBytes(2), peerIdBytes(3), LongId >> }

InitCodec ==
  /\ Constructed
  /\ taior = createTaiorWasm
  /\ pendingHandshakes = {}
  /\ waiting = -1
  /\ yMessages = <<>>
  /\ room = NoRoom
  /\ provider = NoProvider
  /\ page = NoPage
  /\ dht = NoDht
  /\ codec \in { [NoCodec EXCEPT !.stage = "called",
                                  !.payload = payloadOf(n, fill),
                                  !.hopIds = hopIds] :
                    n \in PayloadLengths, fill \in PayloadFills,
                    hopIds \in CodecCircuits }

\* buildAORPPacket(payload, circuit) returns; it has no failing path.
buildPacket ==
  /\ codec.stage = "called"
  /\ codec' = [codec EXCEPT !.stage = "built",
                            !.packet = buildAORPPacket(codec.payload,
                                                       codec.hopIds)]
  /\ UNCHANGED << ws, keyPair, taiorWasm, connected, now, knownNodes, peers,
                  dataChannels, hsExport, circuits, timers, tasks, out, wire,
                  hsRecv, sends, delivered, used, taior, pendingHandshakes,
                  waiting, yMessages,
                  room, provider, page, dht >>

\* removePadding(packet) at the destination.
parsePacket ==
  /\ codec.stage = "built"
  /\ codec' = [codec EXCEPT !.stage = "parsed",
                            !.parsed = removePadding(codec.packet)]
  /\ UNCHANGED << ws, keyPair, taiorWasm, connected, now, knownNodes, peers,
                  dataChannels, hsExport, circuits, timers, tasks, out, wire,
                  hsRecv, sends, delivered, used, taior, pendingHandshakes,
                  waiting, yMessages,
                  room, provider, page, dht >>

\* isForMe(packet) on the node whose id is id, the layers peeled.
matchPacket(id) ==
  /\ codec.stage = "built"
  /\ codec' = [codec EXCEPT !.stage = "matched",
                            !.receiver = id,
                            !.forMe = isForMeWithId(codec.packet, id)]
  /\ UNCHANGED << ws, keyPair, taiorWasm, connected, now, knownNodes, peers,
                  dataChannels, hsExport, circuits, timers, tasks, out, wire,
                  hsRecv, sends, delivered, used, taior, pendingHandshakes,
                  waiting, yMessages,
                  room, provider, page, dht >>

NextCodec ==
  \/ buildPacket
  \/ parsePacket
  \/ \E id \in { peerIdBytes(2), peerIdBytes(4), ShortId, LongId } :
       matchPacket(id)

SpecCodec == InitCodec /\ [][NextCodec]_vars

(***************************************************************************)
(* The chat session: sendMessage of createSession (src/lib/chat.ts) and of *)
(* createTauriSession (src/unnamed/part_004), which append to the shared   *)
(* 'messages' array.  taiorWasm tells which TaiorClient createTaiorClient  *)
(* returns in this environment.  Strings are sequences of code points.     *)
(***************************************************************************)
MaxMessages == 2

\* "hi", " yo ", "a" and a blank string
Texts == { <<104, 105>>, <<32, 121, 111, 32>>, <<97>>, <<32, 32>> }

\* String.prototype.trim
trim(text) == trimRight(trimLeft(text))

ReplacementChar == 65533            \* U+FFFD

\* new TextEncoder().encode(text): UTF-8, one byte per ASCII character and
\* EF BF BD for U+FFFD.
RECURSIVE textEncode(_)
textEncode(text) ==
  IF text = <<>> THEN <<>>
  ELSE (IF text[1] < 128 THEN << text[1] >> ELSE <<239, 191, 189>>)
         \o textEncode(Tail(text))

\* new TextDecoder().decode(bytes): an ASCII byte is its character; a byte
\* of a sealed packet, or any byte that starts no valid sequence here,
\* comes out as U+FFFD.
textDecode(bytes) ==
  [i \in 1..Len(bytes) |-> IF bytes[i] < 128 THEN bytes[i] ELSE ReplacementChar]

InitChat ==
  /\ ws = "null"
  /\ keyPair = FALSE
  /\ taiorWasm \in {"wasm", "lite"}
  /\ connected = FALSE
  /\ now = 0
  /\ knownNodes = [p \in Peer |-> NoNode]
  /\ peers = {}
  /\ dataChannels = [p \in Peer |-> "none"]
  /\ hsExport = {}
  /\ circuits = <<>>
  /\ timers = [cover |-> 0, refresh |-> 0]
  /\ tasks = {}
  /\ out = [p \in Peer |-> <<>>]
  /\ wire = [n \in Node |-> <<>>]
  /\ hsRecv = {}
  /\ sends = <<>>
  /\ delivered = <<>>
  /\ used = NoUse
  /\ taior = createTaiorWasm
  /\ pendingHandshakes = {}
  /\ waiting = -1
  /\ codec = NoCodec
  /\ yMessages = <<>>
  /\ room = NoRoom
  /\ provider = NoProvider
  /\ page = NoPage
  /\ dht = NoDht

\* One ChatMessage; input is the text the caller passed.
chatMessage(session, input, text, reinforced) ==
  [session |-> session, input |-> input, text |-> text,
   reinforced |-> reinforced, status |-> "sent"]

\* sendMessage(text, reinforced) of createSession: a blank text returns;
\* a taior.send that throws rejects the call before anything is pushed.
sendMessage(text, reinforced, outcome) ==
  /\ Len(yMessages) < MaxMessages
  /\ LET trimmed == trim(text)
         encoded == textEncode(trimmed)
         routed == taiorSend(taiorWasm, encoded, outcome)
         routedText == textDecode(routed.bytes)
     IN  yMessages' = IF trimmed = <<>> \/ ~routed.ok
                      THEN yMessages
                      ELSE Append(yMessages,
                                  chatMessage("web", text, routedText, reinforced))
  /\ UNCHANGED << ws, keyPair, taiorWasm, connected, now, knownNodes, peers,
                  dataChannels, hsExport, circuits, timers, tasks, out, wire,
                  hsRecv, sends, delivered, used, taior, pendingHandshakes,
                  waiting, codec,
                  room, provider, page, dht >>

\* sendMessage(text, reinforced) of createTauriSession.
sendMessageTauri(text, reinforced) ==
  /\ Len(yMessages) < MaxMessages
  /\ LET trimmed == trim(text)
     IN  yMessages' = IF trimmed = <<>>
                      THEN yMessages
                      ELSE Append(yMessages,
                                  chatMessage("tauri", text, trimmed, reinforced))
  /\ UNCHANGED << ws, keyPair, taiorWasm, connected, now, knownNodes, peers,
                  dataChannels, hsExport, circuits, timers, tasks, out, wire,
                  hsRecv, sends, delivered, used, taior, pendingHandshakes,
                  waiting, codec,
                  room, provider, page, dht >>

NextChat ==
  \/ \E text \in Texts, reinforced \in BOOLEAN, outcome \in WasmOutcomes :
       sendMessage(text, reinforced, outcome)
  \/ \E text \in Texts, reinforced \in BOOLEAN : sendMessageTauri(text, reinforced)

SpecChat == InitChat /\ [][NextChat]_vars

(***************************************************************************)
(* Properties.                                                             *)
(***************************************************************************)
framesTo(p) == { out[p][j] : j \in 1..Len(out[p]) }
isHandshakeFrame(frame) == byteAt(frame, 0) = MagicHandshake

\* C1: whatever the encryption step does, no frame written to a data
\* channel is the unwrapped payload of a send() call.
NoPlaintextOnChannel ==
  \A i \in 1..Len(sends), p \in Peer :
    sends[i].payload \notin framesTo(p)

\* C2: a send() that resolved has handed its onion packet to the open
\* channel of circuit.nodes[0].
ResolvedSendWasHanded ==
  \A i \in 1..Len(sends) : sends[i].result = "resolved" => sends[i].handed

\* C3: once a send(P) over circuit [B, C, D] has handed its frame to B and
\* every frame in flight has been taken, D's callback has fired with P and
\* the tag "anonymous", and neither B nor C has delivered anything.
tripQuiet ==
  /\ tasks = {}
  /\ \A p \in Peer : out[p] = <<>>
  /\ \A n \in Node : wire[n] = <<>>
RoundTripDelivers ==
  \A i \in 1..Len(sends) :
    (sends[i].handed /\ tripQuiet) =>
      /\ \E k \in 1..Len(delivered) :
           /\ delivered[k].at = circuits[1].nodes[3].id
           /\ delivered[k].payload = sends[i].payload
           /\ delivered[k].tag = "anonymous"
      /\ \A k \in 1..Len(delivered) :
           delivered[k].at \notin { circuits[1].nodes[1].id,
                                    circuits[1].nodes[2].id }

\* C4: a forward names as next hop the leading 32-byte field of the peeled
\* cleartext and carries exactly the bytes after that field.
ForwardStripsRoutingField ==
  \A t \in tasks :
    t.kind = "forward" =>
      LET cleartext == decryptLayer(t.src, Self).bytes
      IN  /\ t.to = nodeOfId(decodeId(slice(cleartext, 0, NextHopLen)))
          /\ t.bytes = sliceFrom(cleartext, NextHopLen)

\* C5: a send() called while fewer than minHops peers are eligible does
\* not resolve and hands no frame to a data channel.
ShortCircuitRefused ==
  \A i \in 1..Len(sends) :
    sends[i].eligible < minHops =>
      sends[i].result # "resolved" /\ ~sends[i].handed

\* C6: every circuit in the active set has between minHops and maxHops
\* hops.
CircuitLengthInRange ==
  \A c \in 1..Len(circuits) :
    Len(circuits[c].nodes) >= minHops /\ Len(circuits[c].nodes) <= maxHops
\* a circuit of the active set has carried a send() to its first hop
CircuitCarriedSend ==
  /\ Len(circuits) > 0
  /\ \E i \in 1..Len(sends) :
       sends[i].handed /\ sends[i].first = circuits[1].nodes[1].id

\* C7: no peer id appears twice in a circuit.
NoRepeatedHop ==
  \A c \in 1..Len(circuits) :
    \A i, j \in 1..Len(circuits[c].nodes) :
      i # j => circuits[c].nodes[i].id # circuits[c].nodes[j].id
\* the circuit built when the hook named peer 3 in every pass: 3, then
\* candidates[0] twice
CircuitBuiltOnFallback ==
  \E c \in 1..Len(circuits) :
    [i \in 1..Len(circuits[c].nodes) |-> circuits[c].nodes[i].id] = <<3, 2, 4>>

\* C8: every hop of a circuit has, when the circuit is built, a key that
\* is not empty and not all zero bytes.
usableKey(k) == Len(k) > 0 /\ \E i \in 1..Len(k) : k[i] # 0
builtNow(c) ==
  c > Len(circuits) \/ circuits'[c].createdAt # circuits[c].createdAt
BuiltWithUsableKeys ==
  [][\A c \in 1..Len(circuits') :
       builtNow(c) =>
         \A i \in 1..Len(circuits'[c].nodes) :
           usableKey(circuits'[c].nodes[i].publicKey)]_vars

\* C9: every hop of every circuit in the active set is a node object of
\* the peer directory.
CircuitsOnlyThroughDirectory ==
  \A c \in 1..Len(circuits) :
    \A i \in 1..Len(circuits[c].nodes) :
      /\ has(circuits[c].nodes[i].id)
      /\ knownNodes[circuits[c].nodes[i].id].gen = circuits[c].nodes[i].gen

\* C10: an onion frame is written on the channel to p only after this
\* node's own 0xBB frame was written on that channel and p's 0xBB frame
\* arrived on it.
onionWritten(p) ==
  /\ Len(out'[p]) = Len(out[p]) + 1
  /\ ~isHandshakeFrame(out'[p][Len(out'[p])])
OnionAfterBothHandshakes ==
  [][\A p \in Peer :
       onionWritten(p) =>
         /\ p \in hsRecv
         /\ \E j \in 1..Len(out[p]) : isHandshakeFrame(out[p][j])]_vars


\* C11: on every data channel the first frame this node writes is its own
\* 0xBB handshake frame; no onion, cover or forwarded frame comes before it.
OwnHandshakeFirst ==
  \A p \in Peer : out[p] # <<>> => isHandshakeFrame(out[p][1])

\* Frame k of those that reached this node is the one handled in this step.
handles(k) ==
  /\ k \in 1..Len(wire[Self])
  /\ used.inbound = k - 1
  /\ used'.inbound = k

\* C12: when the layer of a frame cannot be peeled (frame too short, bad
\* ephemeral key, ciphertext or tag tampered with, wrong key), handling it
\* calls no callback, forwards nothing and leaves directory and circuits
\* as they were.
FailedPeelDropsPacket ==
  [][\A k \in 1..MaxArrivals :
       (handles(k) /\ wire[Self][k] \in BrokenFrames) =>
         /\ delivered' = delivered
         /\ tasks' = tasks
         /\ out' = out
         /\ knownNodes' = knownNodes
         /\ circuits' = circuits]_vars

BrokenFrameHandled ==
  \E k \in 1..Len(wire[Self]) :
    k <= used.inbound /\ wire[Self][k] \in BrokenFrames

\* The content of a frame, as it arrives or under its layer for node me,
\* starts with the cover magic 0xFF.
coverContent(data, me) ==
  LET dec == decryptLayer(data, me)
  IN  isCoverTraffic(data) \/ (dec.ok /\ isCoverTraffic(dec.bytes))

\* C13: handling a frame whose raw or peeled content starts with 0xFF never
\* calls the message callback, also when this node is the last hop; the
\* libtaior revision's handler does not deliver such a frame either.
CoverNeverDelivered ==
  [][/\ \A k \in 1..MaxArrivals :
          (handles(k) /\ coverContent(wire[Self][k], Self)) =>
            delivered' = delivered
     /\ \A k \in 1..Len(wire[Self]) :
          isCoverTraffic(wire[Self][k]) =>
            onionOutcomeLibtaior(wire[Self][k], Self).kind # "deliver"]_vars

PeeledCoverHandled ==
  \E k \in 1..Len(wire[Self]) :
    /\ k <= used.inbound
    /\ decryptLayer(wire[Self][k], Self).ok
    /\ isCoverTraffic(decryptLayer(wire[Self][k], Self).bytes)

\* A cleartext that is no well-formed AORP packet: wrong magic, shorter
\* than the 20-byte header, or a length field beyond the bytes present.
malformed(f) ==
  \/ byteAt(f, 0) # MagicAorp
  \/ Len(f) < HeaderSize
  \/ byteAt(f, 18) * 256 + byteAt(f, 19) > Len(f) - HeaderSize

\* C25: handling a frame whose peeled content is no well-formed AORP packet
\* never calls the message callback.
MalformedNeverDelivered ==
  [][\A k \in 1..MaxArrivals :
       (/\ handles(k)
        /\ decryptLayer(wire[Self][k], Self).ok
        /\ malformed(decryptLayer(wire[Self][k], Self).bytes)) =>
         delivered' = delivered]_vars

\* C26: a frame whose first byte is none of 0xAA, 0xBB, 0xFF is dropped:
\* handling it delivers nothing and forwards nothing.
UnknownMagicDropped ==
  [][\A k \in 1..MaxArrivals :
       (/\ handles(k)
        /\ byteAt(wire[Self][k], 0) \notin {MagicAorp, MagicHandshake, MagicCover}) =>
         /\ delivered' = delivered
         /\ tasks' = tasks]_vars

\* C14: after disconnect() neither interval timer started during connect
\* is live, so no cover tick and no refresh tick can run any more.
TimersCancelledOnDisconnect ==
  (ws = "null" /\ keyPair) => (timers.cover = 0 /\ timers.refresh = 0)

\* C15: the step in which disconnect() runs leaves the directory, the
\* circuit set and the data-channel map empty and the key pair dropped.
ClearedOnDisconnect ==
  [][(ws = "open" /\ ws' = "null") =>
       /\ knownIds(knownNodes') = {}
       /\ circuits' = <<>>
       /\ \A p \in Peer : dataChannels'[p] = "none"
       /\ ~keyPair']_vars

\* C16: once disconnect() has run, a send that was still in flight can
\* only end as a failure reported to its caller, and nothing is written to
\* any channel.
InFlightSendCancelled ==
  [][(ws = "null" /\ keyPair) =>
       /\ out' = out
       /\ \A i \in 1..Len(sends) :
            sends[i].result = "pending" =>
              sends'[i].result \in {"pending", "rejected"}]_vars

\* C17: a send() issued while the client holds no instance (initialization
\* not finished or failed, or client disconnected) never returns a packet
\* and never waits on a ready promise that can no longer resolve; it ends
\* with the 'not initialized' failure.
UninitializedSendFails ==
  \A i \in 1..Len(taior.calls) :
    ~taior.calls[i].initialized =>
      /\ taior.calls[i].result # "returned"
      /\ ~(taior.calls[i].result = "pending" /\ taior.ready = "abandoned")

\* C18: no send is wrapped through a circuit older than circuitTTL.
NoSendThroughExpiredCircuit ==
  \A i \in 1..Len(sends) :
    sends[i].first # 0 => sends[i].age <= circuitTTL

\* C19: while the node stays connected, no step takes the circuit set
\* from non-empty to empty: an expired circuit leaves only after its
\* replacement is in.
RefreshKeepsACircuit ==
  [][(Len(circuits) > 0 /\ ws' = ws) => Len(circuits') > 0]_vars

\* C20: every frame bound for the first hop of a circuit, real or cover,
\* has a length that is a multiple of 512.
FirstHopFramesInBuckets ==
  \A t \in tasks :
    t.kind \in {"encrypt", "send", "cover"} => Len(t.bytes) % PadBoundary = 0

\* C21: for a payload of at most 65535 bytes the packet buildAORPPacket
\* returns is a whole number of 512-byte blocks, at least one, and the
\* least that holds header and payload; byte 0 is 0xAA and bytes 18..19
\* give the payload length big-endian.
PacketLayout ==
  (codec.stage \in {"built", "parsed"} /\ Len(codec.payload) <= MaxPayloadLen) =>
    LET F == codec.packet
        n == Len(codec.payload)
    IN  /\ Len(F) % PadBoundary = 0
        /\ Len(F) >= PadBoundary
        /\ Len(F) = ((HeaderSize + n + PadBoundary - 1) \div PadBoundary)
                       * PadBoundary
        /\ F[1] = MagicAorp
        /\ F[19] * 256 + F[20] = n

PacketFilledToBoundary ==
  codec.stage = "built" /\ HeaderSize + Len(codec.payload) = PadBoundary

\* C22: parsing the packet built from a payload of at most 65535 bytes
\* gives back exactly that payload, the empty one included.
CodecRoundTrip ==
  (codec.stage = "parsed" /\ Len(codec.payload) <= MaxPayloadLen) =>
    codec.parsed = codec.payload

\* C23: no packet is built from a payload longer than 65535 bytes or for a
\* destination id longer than 16 bytes.
OversizeRefused ==
  codec.stage \in {"built", "parsed"} =>
    /\ Len(codec.payload) <= MaxPayloadLen
    /\ Len(codec.hopIds[Len(codec.hopIds)]) <= DestLen

\* C24: every message in the shared log carries the caller's text, trimmed,
\* as its text; what the routing client's send returned never becomes it.
MessageTextIsCallersText ==
  \A i \in 1..Len(yMessages) : yMessages[i].text = trim(yMessages[i].input)

\* C27: a frame from peer p counts as p seen now: in the step in which the
\* 0xBB frame with p's key arrives on p's open channel, p, if it is in the
\* directory, has lastSeen = now and is among the nodes buildCircuit may
\* choose.
FramePeerIsCandidate ==
  [][\A p \in Peer :
       (/\ p \notin hsRecv /\ p \in hsRecv'
        /\ knownNodes'[p].present
        /\ knownNodes'[p].publicKey = staticPub(p)
        /\ dataChannels'[p] = "open") =>
         /\ knownNodes'[p].lastSeen = now'
         /\ p \in availableNodes(knownNodes')]_vars


\* waitForHandshakes leaves its loop and buildInitialCircuits goes on.
waitEnds == waiting >= 0 /\ waiting' = -1

\* C28: when the wait for handshakes ends, every peer still pending leaves
\* the directory and nothing stays pending, and a peer whose handshake key
\* was stored during the wait stays in the directory.
TimeoutEvictsOnlyPending ==
  [][waitEnds =>
       /\ pendingHandshakes' = {}
       /\ \A p \in Peer :
            /\ (p \in pendingHandshakes /\ Len(knownNodes[p].publicKey) = 0)
                 => ~knownNodes'[p].present
            /\ (knownNodes[p].present /\ Len(knownNodes[p].publicKey) >= 32)
                 => knownNodes'[p].present]_vars

\* A 0xBB frame of peer p is handled and leaves p in the directory with the
\* key the frame carried.
completes(p) ==
  /\ dataChannels[p] = "open"
  /\ hsRecv' = hsRecv \cup {p}
  /\ knownNodes'[p].present
  /\ Len(knownNodes'[p].publicKey) >= 32
  /\ knownNodes'[p].lastSeen = now
  /\ knownNodes'[p] # knownNodes[p]

\* C29: a handshake that completes while no circuit is active and nothing
\* stays pending builds a circuit when the directory holds enough usable
\* nodes, whether or not the peer was in the directory before; otherwise
\* the number of circuits stays.
CompletionBuildsCircuit ==
  [][\A p \in Peer :
       completes(p) =>
         IF Len(circuits) = 0 /\ pendingHandshakes' = {}
         THEN Cardinality(availableNodes(keyed(knownNodes'))) >= minHops
                => Len(circuits') > 0
         ELSE Len(circuits') = Len(circuits)]_vars

\* C30: no step stores a handshake key shorter than a raw P-256 point in
\* the directory.
ShortKeyRejected ==
  [][\A p \in Peer :
       (/\ knownNodes'[p].present
        /\ knownNodes'[p].publicKey # knownNodes[p].publicKey
        /\ Len(knownNodes'[p].publicKey) > 0)
         => Len(knownNodes'[p].publicKey) >= PointLen]_vars


\* C31: a node takes a built frame as its own exactly when the first 16
\* bytes of its id are the first 16 bytes of the id the frame was built
\* for, ids shorter than 16 bytes included.
DestinationMatchesBuilder ==
  codec.stage = "matched" =>
    (codec.forMe <=>
       slice(codec.receiver, 0, DestLen)
         = slice(codec.hopIds[Len(codec.hopIds)], 0, DestLen))


\* A 'peer-list' message is handled.
listHandled == used.lists' = used.lists + 1

\* C32: handling a 'peer-list' message leaves the record of every peer
\* already in the directory as it was (key, lastSeen and all), and the
\* node never opens a connection to its own id.
RediscoveryKeepsRecord ==
  [][listHandled =>
       /\ \A p \in Peer : has(p) => knownNodes'[p] = knownNodes[p]
       /\ Self \notin peers']_vars

\* A second list, naming peer 2 as every list does, was handled after a
\* pause, when peer 2's handshake was complete: the circuit it built dates
\* from then, and peer 2's record is older.
RediscoveredAfterHandshake ==
  /\ used.lists = 2
  /\ Len(circuits) = 2
  /\ circuits[2].createdAt = Pause
  /\ knownNodes[2].publicKey = staticPub(2)
  /\ knownNodes[2].lastSeen = 0

\* C33: at most one cover-traffic timer and one refresh timer run.
OneTimerEach == timers.cover <= 1 /\ timers.refresh <= 1


\* C34: when sendToNextHop writes its bytes after the jitter sleep, the
\* channel it looked up before sleeping is still open.
WrittenOnOpenChannel ==
  [][\A t \in tasks :
       (t.kind # "encrypt" /\ t \notin tasks') => ~t.dead]_vars


\* C36: every peer with a handshake pending is in the directory.
PendingInDirectory == pendingHandshakes \subseteq knownIds(knownNodes)

\* C37: once disconnect() has run, nothing sets connected, starts a timer
\* or adds a circuit.
DisconnectedStays ==
  [][ws = "null" =>
       /\ ~connected'
       /\ timers' = timers
       /\ Len(circuits') = 0]_vars


\* isConnected() of transport n in the room
isConnected(n) == n \in room.connected /\ n \in room.circuits

\* C35: once the four transports have joined, every two of them come to
\* hold an open channel to each other with the other's 0xBB frame
\* handled, and every one of them comes to report isConnected().
RoomConnects ==
  <>(/\ \A n \in RoomNodes : isConnected(n)
     /\ \A n \in RoomNodes : \A p \in RoomNodes \ {n} :
          << n, p >> \in room.open /\ << n, p >> \in room.keyed)


\* how often update u was handed to transport.send
timesSent(u) ==
  Cardinality({ i \in 1..Len(provider.sent) : provider.sent[i] = u })

\* C38: an update that came from the transport is never handed to
\* transport.send; a local update is handed to it once when it was made
\* before provider.disconnect() and never when it was made after.
ProviderNeverEchoes ==
  /\ \A u \in RemoteUpdates : timesSent(u) = 0
  /\ \A u \in LocalUpdates :
       timesSent(u) = IF u \in provider.heard THEN 1 ELSE 0

\* A remote update was applied, a local one was sent, and another local
\* one was made after disconnect().
UpdatesBothWays ==
  /\ ~provider.updateHandler
  /\ provider.doc \cap RemoteUpdates # {}
  /\ provider.heard # {}
  /\ (provider.doc \cap LocalUpdates) \ provider.heard # {}


\* C39: when no createSession call is under way, every session created is
\* disconnected except the one 'session' holds.
OneLiveSession ==
  (\A c \in Calls : page.status[c] # "creating") =>
    \A c \in Calls : page.status[c] = "live" => page.session = c


tableIds(table) == { table[i].id : i \in 1..Len(table) }

\* C40: the routing table never holds more than k entries, and when an
\* added node takes the place of another in a full table, the one that
\* left had a stored distance no entry that stayed exceeds.
TableBoundedEvictsFarthest ==
  /\ [](Len(dht.routingTable) <= DhtK)
  /\ [][(/\ Len(dht.routingTable) = DhtK
          /\ Len(dht.routingTable') = DhtK
          /\ tableIds(dht.routingTable') # tableIds(dht.routingTable))
         => \E i \in 1..DhtK :
              /\ tableIds(dht.routingTable) \ tableIds(dht.routingTable')
                   = { dht.routingTable[i].id }
              /\ \A j \in 1..DhtK :
                   dht.routingTable'[j].distance
                     <= dht.routingTable[i].distance]_vars

\* addNode has overflowed the table and evicted a node.
TableOverflowed == dht.evicted /\ Len(dht.routingTable) = DhtK

=============================================================================
